---- MODULE Spec2Model ----
(***************************************************************************)
(* Canvas Player: the navigation state machine, the shared countdown       *)
(* timer and the cross-device session ownership protocol of the plugin.    *)
(*                                                                         *)
(* Every handler of the plugin is an async function.  A handler runs       *)
(* synchronously up to its next storage operation (vault read, modify,     *)
(* delete, create, plugin data save, timeout); each action below performs  *)
(* one awaited storage operation of one in-flight handler and then the     *)
(* synchronous code that follows it, up to the next storage operation.     *)
(* Awaits that only yield to the microtask queue (async functions that     *)
(* touch no storage) and reads of canvas documents, whose graph never      *)
(* changes here, are folded into the surrounding step, except the read     *)
(* inside diveIntoCanvasForSession, which happens with the session half    *)
(* updated.                                                                *)
(*                                                                         *)
(* Settings are the defaults: mode = 'modal', enableTimeboxing = true,     *)
(* startText = 'canvas-start'.                                             *)
(***************************************************************************)
EXTENDS Integers, Sequences, FiniteSets, TLC

(***************************************************************************)
(* Bounds of the model.                                                    *)
(***************************************************************************)
\* the clock runs from 1 to MaxTime
MaxTime == 3
\* handler invocations that may be in flight together on one device
MaxTasks == 2
\* a TimingRecord's sample count is kept up to MaxSamples ("that many or more")
MaxSamples == 1
\* earn transactions recorded per device
MaxEarn == 1
\* handler invocations (commands, buttons, watcher runs) in one behaviour
MaxInvocations == 4
\* SpecMirror: handler invocations of the owner, and the last minute of the clock
MirrorInvocations == 3
MirrorTime == 2

(***************************************************************************)
(* Program constants.                                                      *)
(***************************************************************************)
\* lease window of isSessionOwner: 60_000 ms, one tick of the clock
LEASE_TIMEOUT_MS == 1

Devices == {"d1", "d2"}
Vars == {"k", "j"}

(***************************************************************************)
(* The vault's canvas documents.  R is the root canvas, S the canvas its   *)
(* file node f links to.  D is a damaged canvas that no canvas links to:   *)
(* its file node dx links to the canvas X, which the vault does not hold,  *)
(* and one of its edges ends at the node zz, which D does not hold.  An    *)
(* edge holds its label as LogicEngine.parseLabel returns it: the sets and *)
(* the conditions.                                                         *)
(***************************************************************************)
CanvasFiles == {"R", "S", "D"}

Node(id, type, marker, file) ==
    [id |-> id, type |-> type, marker |-> marker, file |-> file]

Edge(from, to, sets, conditions) ==
    [fromNode |-> from, toNode |-> to, sets |-> sets, conditions |-> conditions]

SetOp(v, b) == [variable |-> v, value |-> b]

CanvasData(path) ==
    IF path = "R"
    THEN [nodes |-> << Node("m", "text", TRUE, ""),
                       Node("a", "text", FALSE, ""),
                       Node("b", "text", FALSE, ""),
                       Node("f", "file", FALSE, "S") >>,
          edges |-> << Edge("m", "a", <<>>, <<>>),
                       Edge("a", "f", << SetOp("k", TRUE) >>, <<>>),
                       Edge("a", "b", <<>>, <<>>),
                       Edge("f", "a", <<>>, << SetOp("j", TRUE) >>) >>]
    ELSE IF path = "D"
    THEN [nodes |-> << Node("dm", "text", TRUE, ""),
                       Node("d1", "text", FALSE, ""),
                       Node("dx", "file", FALSE, "X") >>,
          edges |-> << Edge("dm", "d1", <<>>, <<>>),
                       Edge("d1", "dx", <<>>, <<>>),
                       Edge("d1", "zz", <<>>, <<>>) >>]
    ELSE [nodes |-> << Node("sm", "text", TRUE, ""),
                       Node("s1", "text", FALSE, "") >>,
          edges |-> << Edge("sm", "s1", <<>>, <<>>),
                       Edge("s1", "s1",
                            << SetOp("k", FALSE), SetOp("j", TRUE) >>,
                            << SetOp("k", TRUE) >>) >>]

NodeIds == {"m", "a", "b", "f", "sm", "s1", "dm", "d1", "dx"}
NoNode == "-"

\* data.nodes.find(n => n.id === id), as the node's id or NoNode
FindNode(path, id) ==
    IF \E i \in DOMAIN CanvasData(path).nodes : CanvasData(path).nodes[i].id = id
    THEN id ELSE NoNode

NodeOf(id) ==
    LET path == CHOOSE f \in CanvasFiles :
                    \E i \in DOMAIN CanvasData(f).nodes : CanvasData(f).nodes[i].id = id
        i == CHOOSE i \in DOMAIN CanvasData(path).nodes :
                       CanvasData(path).nodes[i].id = id
    IN CanvasData(path).nodes[i]

\* nextNode.type === 'file' && nextNode.file && nextNode.file.endsWith('.canvas')
IsCanvasNode(id) == NodeOf(id).type = "file" /\ NodeOf(id).file # ""

\* Position of the first element of seq that is in the set good, or 0
RECURSIVE FirstIndex(_, _, _)
FirstIndex(seq, good, i) ==
    IF i > Len(seq) THEN 0
    ELSE IF seq[i] \in good THEN i ELSE FirstIndex(seq, good, i + 1)

getStartNode(path) ==
    LET data == CanvasData(path)
        markers == {data.nodes[i] : i \in {k \in DOMAIN data.nodes :
                       data.nodes[k].type = "text" /\ data.nodes[k].marker}}
        mi == FirstIndex(data.nodes, markers, 1)
    IN IF mi = 0 THEN NoNode
       ELSE LET fromMarker == {data.edges[i] : i \in {k \in DOMAIN data.edges :
                                 data.edges[k].fromNode = data.nodes[mi].id}}
                ei == FirstIndex(data.edges, fromMarker, 1)
            IN IF ei = 0 THEN NoNode ELSE FindNode(path, data.edges[ei].toNode)

(***************************************************************************)
(* getStartNode over any canvas and any startText setting.  A text is the  *)
(* sequence of its characters, so that lowering, trimming and searching    *)
(* are computed and not assumed; the node at place i of data.nodes has the *)
(* id StartIds[i], and an edge may end at zz, a node no canvas holds.      *)
(***************************************************************************)
\* nodes and edges of a canvas handed to getStartNode
MaxNodes == 3
MaxEdges == 2

StartIds == << "n1", "n2", "n3", "n4" >>

Lower(c) == IF c = "S" THEN "s" ELSE IF c = "X" THEN "x" ELSE c

RECURSIVE toLowerCase(_)
toLowerCase(t) ==
    IF t = << >> THEN << >> ELSE << Lower(Head(t)) >> \o toLowerCase(Tail(t))

RECURSIVE trim(_)
trim(t) ==
    IF t = << >> THEN t
    ELSE IF Head(t) = " " THEN trim(Tail(t))
    ELSE IF t[Len(t)] = " " THEN trim(SubSeq(t, 1, Len(t) - 1))
    ELSE t

\* t.includes(part)
includes(t, part) ==
    \E i \in 0..(Len(t) - Len(part)) : SubSeq(t, i + 1, i + Len(part)) = part

\* the id of the first node of nodes that is in the set good, or NoNode
FirstNode(nodes, good) ==
    IF FirstIndex(nodes, good, 1) = 0 THEN NoNode
    ELSE nodes[FirstIndex(nodes, good, 1)].id

getStartNodeIn(data, setting) ==
    LET startText == trim(toLowerCase(setting))
        sel(S) == {data.nodes[i] : i \in S}
    IN IF startText = << >>
       THEN LET nodeIdsWithIncoming ==
                    {data.edges[i].toNode : i \in 1..Len(data.edges)}
                firstTextWithoutIncoming ==
                    FirstNode(data.nodes,
                              {n \in sel(1..Len(data.nodes)) :
                                  n.type = "text" /\ n.id \notin nodeIdsWithIncoming})
            IN IF firstTextWithoutIncoming # NoNode THEN firstTextWithoutIncoming
               ELSE IF Len(data.nodes) > 0 THEN data.nodes[1].id
               ELSE NoNode
       ELSE LET markerNode ==
                    FirstNode(data.nodes,
                              {n \in sel(1..Len(data.nodes)) :
                                  /\ n.type = "text"
                                  /\ n.hasText
                                  /\ includes(toLowerCase(n.text), startText)})
                edgesFromMarker ==
                    SelectSeq(data.edges, LAMBDA e : e.fromNode = markerNode)
            IN IF markerNode = NoNode THEN NoNode
               ELSE IF Len(edgesFromMarker) = 0 THEN NoNode
               ELSE IF \E i \in 1..Len(data.nodes) :
                          data.nodes[i].id = edgesFromMarker[1].toNode
               THEN edgesFromMarker[1].toNode
               ELSE NoNode

\* no canvas has been handed to getStartNode
NoStart ==
    [pc |-> "none", data |-> [nodes |-> << >>, edges |-> << >>],
     startText |-> << >>, node |-> NoNode, notice |-> ""]

(***************************************************************************)
(* LogicEngine.  A GameState is a function from the variables it holds to  *)
(* booleans; a variable outside its domain is undefined.                   *)
(***************************************************************************)
EmptyState == [v \in {} |-> FALSE]

Put(state, v, b) == [x \in DOMAIN state \cup {v} |-> IF x = v THEN b ELSE state[x]]

Truthy(state, v) == v \in DOMAIN state /\ state[v]

RECURSIVE ApplySets(_, _, _)
ApplySets(sets, state, i) ==
    IF i > Len(sets) THEN state
    ELSE ApplySets(sets, Put(state, sets[i].variable, sets[i].value), i + 1)

updateState(parsed, state) == ApplySets(parsed.sets, state, 1)

checkConditions(parsed, state) ==
    \A i \in DOMAIN parsed.conditions :
        Truthy(state, parsed.conditions[i].variable) = parsed.conditions[i].value

getMissingVariables(parsed, state) ==
    {parsed.conditions[i].variable : i \in DOMAIN parsed.conditions} \ DOMAIN state

(***************************************************************************)
(* State.                                                                  *)
(*   now         Date.now(), in ticks                                      *)
(*   sessionFile canvas-session-state.json, the shared snapshot            *)
(*   resumeData  canvas-player-resume-data.json, the entry of root R       *)
(*   timing      the TimingRecord of each node (its sample count), as the  *)
(*               canvas documents hold it                                  *)
(*   dev         the plugin object of each device                          *)
(*   tasks       the handler invocations in flight on each device          *)
(*   prevOwner   ownerDeviceId of the snapshot written last, "" once the   *)
(*               session was stopped                                       *)
(*   misfiled    a timing sample was stored on a node other than the one   *)
(*               the finished timer was started for                       *)
(*   invoked     the number of handler invocations so far                  *)
(*   economy     plugin.economy, the ledger of transactions and purchases  *)
(*   shop        the shop modal: what onOpen drew and what the last click  *)
(*               on it came to                                             *)
(*   learn       the timing one node has stored, and the elapsed times of  *)
(*               its finished visits                                       *)
(*   call        a call of a pure function of the program: its arguments   *)
(*               and, once it has returned, its result                     *)
(*   zoom        the canvas and the startText setting that the command     *)
(*               "zoom to start" found, and the node getStartNode returned *)
(***************************************************************************)
VARIABLES now, sessionFile, resumeData, timing, dev, tasks, prevOwner, misfiled,
          invoked, economy, shop, zoom, learn, call

vars == << now, sessionFile, resumeData, timing, dev, tasks, prevOwner, misfiled,
           invoked, economy, shop, zoom, learn, call >>

\* the state of the shop, of the zoom to start, of the learned timing and of
\* the pure calls, which the player's handlers leave alone
aside == << economy, shop, zoom, learn, call >>

NoSession == [present |-> FALSE]
NoFile == [present |-> FALSE]
NoButtons == [prompt |-> FALSE, missing |-> {}, data |-> "R", edges |-> {},
              ret |-> FALSE, end |-> FALSE, back |-> FALSE]
Idle == [pc |-> "idle"]
Slots == 1..MaxTasks

\* playerSession.ts: the frames are copied, the history starts empty
createActiveSession(root, file, node, initialState, initialStack) ==
    [present |-> TRUE, root |-> root, file |-> file, data |-> file, node |-> node,
     state |-> initialState, stack |-> initialStack, history |-> <<>>]

(***************************************************************************)
(* SharedCountdownTimer.  visit is the node the timer was started for;     *)
(* finishes and aborts count how the current timer instance left the       *)
(* running state.                                                          *)
(***************************************************************************)
NoTimer == [startTimeMs |-> FALSE, intervalId |-> FALSE, visit |-> NoNode,
            finishes |-> 0, aborts |-> 0]

isRunning(timer) == timer.startTimeMs /\ timer.intervalId

TimerAbort(timer) ==
    [timer EXCEPT !.startTimeMs = FALSE, !.intervalId = FALSE,
                  !.aborts = IF isRunning(timer) THEN @ + 1 ELSE @]

\* faulty variant: finish() leaves the interval running
TimerFinish_KeepsInterval(timer) ==
    [timer EXCEPT !.finishes = @ + 1]

TimerFinish(timer) ==
    [timer EXCEPT !.intervalId = FALSE, !.finishes = @ + 1]

\* start() aborts the timer that exists and begins a new instance
TimerStart(timer, node) ==
    [startTimeMs |-> TRUE, intervalId |-> TRUE, visit |-> node,
     finishes |-> 0, aborts |-> 0]

\* abortTimerForActiveSession: only a running timer is aborted
abortTimerForActiveSession(timer) ==
    IF isRunning(timer) THEN TimerAbort(timer) ELSE timer

(***************************************************************************)
(* Ownership.                                                              *)
(***************************************************************************)
\* faulty variant: every device counts as the owner
isOwnerOfPersistedSession_Anyone(persisted, d) == TRUE

\* faulty variant: a snapshot older than the lease window has no owner
isOwnerOfPersistedSession_Lease(persisted, d) ==
    \/ persisted.ownerDeviceId = ""
    \/ persisted.ownerDeviceId = d
    \/ now - persisted.updatedAtMs > LEASE_TIMEOUT_MS

isOwnerOfPersistedSession(persisted, d) ==
    IF persisted.ownerDeviceId = "" THEN TRUE ELSE persisted.ownerDeviceId = d

\* the snapshot object saveActiveSessionState builds, but for its owner
PersistedBy(P, d, t, owner) ==
    LET s == P.activeSession
    IN [present |-> TRUE,
        rootFilePath |-> s.root,
        currentFilePath |-> s.file,
        currentNodeId |-> s.node,
        state |-> s.state,
        stack |-> [i \in DOMAIN s.stack |->
                     [filePath |-> s.stack[i].file,
                      currentNodeId |-> s.stack[i].node,
                      state |-> s.stack[i].state]],
        historyNodeIds |-> s.history,
        ownerDeviceId |-> owner,
        updatedAtMs |-> t,
        updatedByDeviceId |-> d]

\* faulty variant: a forced write keeps the owner it read
Persisted_NeverClaims(P, d, t, force, cur) ==
    PersistedBy(P, d, t, IF cur.present /\ cur.ownerDeviceId # ""
                         THEN cur.ownerDeviceId ELSE d)

\* forceOwnership ? this.deviceId : (currentPersisted?.ownerDeviceId || this.deviceId)
Persisted(P, d, t, force, cur) ==
    PersistedBy(P, d, t, IF force THEN d
                         ELSE IF cur.present /\ cur.ownerDeviceId # ""
                         THEN cur.ownerDeviceId ELSE d)

\* the ResumeSession stopActiveSession saves
ResumeSession(s) ==
    [present |-> TRUE,
     rootFilePath |-> s.root,
     currentFilePath |-> s.file,
     currentNodeId |-> s.node,
     currentSessionState |-> s.state,
     stack |-> [i \in DOMAIN s.stack |->
                  [filePath |-> s.stack[i].file,
                   currentNodeId |-> s.stack[i].node,
                   state |-> s.stack[i].state]]]

\* resumeStorage.ts: every frame's file and node must exist
StackRestorable(resumeStack) ==
    \A i \in DOMAIN resumeStack :
        FindNode(resumeStack[i].filePath, resumeStack[i].currentNodeId) # NoNode

\* validateResumeSession, "Validate stack frames": the first frame whose file
\* or node is missing decides the message
RECURSIVE StackError(_, _)
StackError(resumeStack, i) ==
    IF i > Len(resumeStack) THEN ""
    ELSE IF resumeStack[i].filePath \notin CanvasFiles THEN "frame_file"
    ELSE IF FindNode(resumeStack[i].filePath, resumeStack[i].currentNodeId) = NoNode
    THEN "frame_node"
    ELSE StackError(resumeStack, i + 1)

\* validateResumeSession: "" when the entry can be restored, else the kind
\* of the error message
validateResumeSession(e) ==
    IF e.rootFilePath \notin CanvasFiles THEN "root_file"
    ELSE IF e.currentFilePath \notin CanvasFiles THEN "current_file"
    ELSE IF FindNode(e.currentFilePath, e.currentNodeId) = NoNode THEN "node"
    ELSE StackError(e.stack, 1)

restoreStackFromResume(resumeStack) ==
    [i \in DOMAIN resumeStack |->
       [file |-> resumeStack[i].filePath,
        data |-> resumeStack[i].filePath,
        node |-> resumeStack[i].currentNodeId,
        state |-> resumeStack[i].state]]

(***************************************************************************)
(* The synchronous code of the handlers.  It works on a machine M: the     *)
(* device d, its plugin object P, the running invocation T, the timing     *)
(* store tm, the misfiled flag, whether the snapshot file exists (fp, what *)
(* getSessionStateFile finds) and the clock.  Each operator runs the code  *)
(* up to the next storage operation, which it leaves in T.pc.              *)
(***************************************************************************)
\* no frame popped: the local "frame" of navigateReturnToParent before the pop
NoFrame == [file |-> "", data |-> "", node |-> NoNode, state |-> EmptyState]

NewTask(op) ==
    [pc |-> "new", op |-> op, kont |-> "", force |-> FALSE, closes |-> FALSE,
     edge |-> 0, frame |-> NoFrame,
     data |-> "R", target |-> "R", content |-> NoFile, newTiming |-> 0,
     measured |-> NoNode, since |-> 0]

Parsed(T) == CanvasData(T.data).edges[T.edge]

\* faulty variant: every outgoing edge is offered, whatever its condition
renderScene_AllEdges(P) ==
    IF ~P.activeSession.present
    THEN [P EXCEPT !.activeModal = FALSE, !.shown = NoButtons]
    ELSE LET s == P.activeSession
             edges == CanvasData(s.data).edges
             out == {i \in DOMAIN edges : edges[i].fromNode = s.node}
             missing == UNION {getMissingVariables(edges[i], s.state) : i \in out}
             state2 == [v \in DOMAIN s.state \cup missing |->
                          IF v \in DOMAIN s.state THEN s.state[v] ELSE FALSE]
             valid == out
         IN IF missing # {}
            THEN [P EXCEPT !.activeSession.state = state2,
                           !.shown = [NoButtons EXCEPT !.prompt = TRUE,
                                         !.missing = missing,
                                         !.data = s.data,
                                         !.back = s.history # <<>>]]
            ELSE [P EXCEPT !.shown = [prompt |-> FALSE, missing |-> {},
                                      data |-> s.data,
                                      edges |-> valid,
                                      ret |-> valid = {} /\ s.stack # <<>>,
                                      end |-> valid = {} /\ s.stack = <<>>,
                                      back |-> s.history # <<>>]]

\* faulty variant: the prompt is shown but no default is stored
renderScene_NoDefaults(P) ==
    IF ~P.activeSession.present
    THEN [P EXCEPT !.activeModal = FALSE, !.shown = NoButtons]
    ELSE LET s == P.activeSession
             edges == CanvasData(s.data).edges
             out == {i \in DOMAIN edges : edges[i].fromNode = s.node}
             missing == UNION {getMissingVariables(edges[i], s.state) : i \in out}
             valid == {i \in out : checkConditions(edges[i], s.state)}
         IN IF missing # {}
            THEN [P EXCEPT !.shown = [NoButtons EXCEPT !.prompt = TRUE,
                                         !.missing = missing,
                                         !.data = s.data,
                                         !.back = s.history # <<>>]]
            ELSE [P EXCEPT !.shown = [prompt |-> FALSE, missing |-> {},
                                      data |-> s.data,
                                      edges |-> valid,
                                      ret |-> valid = {} /\ s.stack # <<>>,
                                      end |-> valid = {} /\ s.stack = <<>>,
                                      back |-> s.history # <<>>]]

\* CanvasPlayerModal.renderScene
renderScene(P) ==
    IF ~P.activeSession.present
    THEN [P EXCEPT !.activeModal = FALSE, !.shown = NoButtons]
    ELSE LET s == P.activeSession
             edges == CanvasData(s.data).edges
             out == {i \in DOMAIN edges : edges[i].fromNode = s.node}
             missing == UNION {getMissingVariables(edges[i], s.state) : i \in out}
             state2 == [v \in DOMAIN s.state \cup missing |->
                          IF v \in DOMAIN s.state THEN s.state[v] ELSE FALSE]
             valid == {i \in out : checkConditions(edges[i], state2)}
         IN IF missing # {}
            THEN [P EXCEPT !.activeSession.state = state2,
                           !.shown = [NoButtons EXCEPT !.prompt = TRUE,
                                         !.missing = missing,
                                         !.data = s.data,
                                         !.back = s.history # <<>>]]
            ELSE [P EXCEPT !.shown = [prompt |-> FALSE, missing |-> {},
                                      data |-> s.data,
                                      edges |-> valid,
                                      ret |-> valid = {} /\ s.stack # <<>>,
                                      end |-> valid = {} /\ s.stack = <<>>,
                                      back |-> s.history # <<>>]]

updateAllUIs(P) == IF P.activeModal THEN renderScene(P) ELSE P

\* the handler returns; the Stop and "End of Path" buttons then close the modal
Done(M) ==
    [M EXCEPT !.T = Idle,
              !.P = IF M.T.closes
                    THEN [@ EXCEPT !.activeModal = FALSE, !.shown = NoButtons]
                    ELSE @]

\* what follows the snapshot write in the caller
Continue(M) ==
    CASE M.T.kont = "ui" -> Done([M EXCEPT !.P = updateAllUIs(@)])
      [] M.T.kont = "open" ->
            Done([M EXCEPT !.P = renderScene([@ EXCEPT !.activeModal = TRUE])])
      [] M.T.kont = "takeover" ->
            Done([M EXCEPT !.P = updateAllUIs([@ EXCEPT !.notice = "control"])])
      [] M.T.kont = "stopped" -> Done([M EXCEPT !.P.notice = "stopped"])

clearActiveSessionState(M) ==
    IF M.fp THEN [M EXCEPT !.T.pc = "clear_read"] ELSE Continue(M)

saveActiveSessionState(M, force, kont) ==
    LET M1 == [M EXCEPT !.T.kont = kont, !.T.force = force]
    IN IF ~M.P.activeSession.present THEN clearActiveSessionState(M1)
       ELSE IF M.fp THEN [M1 EXCEPT !.T.pc = "save_read"]
       ELSE [M1 EXCEPT !.T.pc = "save_create",
                       !.T.content = Persisted(M.P, M.d, M.now, force, NoFile)]

\* faulty variant: the timer is started and the snapshot write is left out
startTimerForActiveSession_NoSave(M, kont) ==
    IF ~M.P.activeSession.present THEN Continue([M EXCEPT !.T.kont = kont])
    ELSE Continue([M EXCEPT !.P.sharedTimer = TimerStart(@, M.P.activeSession.node),
                            !.T.kont = kont])

startTimerForActiveSession(M, kont) ==
    IF ~M.P.activeSession.present THEN Continue([M EXCEPT !.T.kont = kont])
    ELSE saveActiveSessionState(
           [M EXCEPT !.P.sharedTimer = TimerStart(@, M.P.activeSession.node)],
           FALSE, kont)

\* timingStats.ts, by the number of samples the record holds
updateRobustAverage(existing) ==
    IF existing < MaxSamples THEN existing + 1 ELSE existing

\* saveTimingForNode(app, this.activeSession.currentCanvasFile,
\*                   this.activeSession.currentNode, ..., newTiming):
\* the session is read again, after the award was saved
saveTimingForNode(M) ==
    IF ~M.P.activeSession.present THEN Done(M)
    ELSE LET n == M.P.activeSession.node
         IN [M EXCEPT !.tm[n] = M.T.newTiming,
                      !.mis = @ \/ n # M.T.measured,
                      !.T.pc = "fin_modify"]

\* faulty variant: points are awarded on the calibration run too
finishTimerForActiveSession_AwardsAlways(M) ==
    LET existing == M.tm[M.P.activeSession.node]
        M1 == [M EXCEPT !.P.sharedTimer = TimerFinish(@),
                        !.T.newTiming = updateRobustAverage(existing),
                        !.T.measured = M.P.sharedTimer.visit]
    IN IF M.award /\ M.P.earned < MaxEarn
       THEN [M1 EXCEPT !.P.earned = @ + 1, !.T.pc = "fin_plugin"]
       ELSE saveTimingForNode(M1)

\* finishTimerForActiveSession, entered with a running timer
finishTimerForActiveSession(M) ==
    LET existing == M.tm[M.P.activeSession.node]
        M1 == [M EXCEPT !.P.sharedTimer = TimerFinish(@),
                        !.T.newTiming = updateRobustAverage(existing),
                        !.T.measured = M.P.sharedTimer.visit]
    IN IF existing > 0 /\ M.award /\ M.P.earned < MaxEarn
       THEN [M1 EXCEPT !.P.earned = @ + 1, !.T.pc = "fin_plugin"]
       ELSE saveTimingForNode(M1)

\* faulty variant: the nested graph inherits the parent's variables
diveIntoCanvasForSession_KeepsState(M, fileNode) ==
    LET s == M.P.activeSession
        frame == [file |-> s.file, data |-> s.data, node |-> fileNode,
                  state |-> s.state]
    IN IF NodeOf(fileNode).file \notin CanvasFiles
       THEN Done([M EXCEPT !.P.notice = "nofile"])
       ELSE [M EXCEPT !.P.activeSession.stack = Append(@, frame),
                      !.P.activeSession.file = NodeOf(fileNode).file,
                      !.T.target = NodeOf(fileNode).file,
                      !.T.pc = "dive_read"]

\* diveIntoCanvasForSession up to the read of the target canvas
diveIntoCanvasForSession(M, fileNode) ==
    LET s == M.P.activeSession
        frame == [file |-> s.file, data |-> s.data, node |-> fileNode,
                  state |-> s.state]
    IN IF NodeOf(fileNode).file \notin CanvasFiles
       THEN Done([M EXCEPT !.P.notice = "nofile"])
       ELSE [M EXCEPT !.P.activeSession.stack = Append(@, frame),
                      !.P.activeSession.state = EmptyState,
                      !.P.activeSession.file = NodeOf(fileNode).file,
                      !.T.target = NodeOf(fileNode).file,
                      !.T.pc = "dive_read"]

\* stopActiveSession after the ownership check, up to saveResumeSession
StopChecked(M) ==
    IF ~M.P.activeSession.present THEN Done([M EXCEPT !.P.notice = "error"])
    ELSE [M EXCEPT !.T.content = ResumeSession(M.P.activeSession),
                   !.T.pc = "stop_save"]

\* faulty variant: Back takes the variable state back to the empty state
BackChecked_Reverts(M) ==
    LET s == M.P.activeSession
    IN IF ~s.present \/ s.history = <<>> THEN Done(M)
       ELSE startTimerForActiveSession(
              [M EXCEPT !.P.activeSession.history = SubSeq(@, 1, Len(@) - 1),
                        !.P.activeSession.node = s.history[Len(s.history)],
                        !.P.activeSession.state = EmptyState,
                        !.P.sharedTimer = abortTimerForActiveSession(@)],
              "ui")

\* faulty variant: Back finishes the timer and stores its sample
BackChecked_Finishes(M) ==
    LET s == M.P.activeSession
    IN IF ~s.present \/ s.history = <<>> THEN Done(M)
       ELSE startTimerForActiveSession(
              [M EXCEPT !.P.activeSession.history = SubSeq(@, 1, Len(@) - 1),
                        !.P.activeSession.node = s.history[Len(s.history)],
                        !.tm[s.node] = updateRobustAverage(@),
                        !.P.sharedTimer = TimerFinish(@)],
              "ui")

\* navigateBack after the ownership check
BackChecked(M) ==
    LET s == M.P.activeSession
    IN IF ~s.present \/ s.history = <<>> THEN Done(M)
       ELSE startTimerForActiveSession(
              [M EXCEPT !.P.activeSession.history = SubSeq(@, 1, Len(@) - 1),
                        !.P.activeSession.node = s.history[Len(s.history)],
                        !.P.sharedTimer = abortTimerForActiveSession(@)],
              "ui")

RECURSIVE assertCanControlAsync(_)

stopActiveSession(M) ==
    IF ~M.P.activeSession.present THEN Done(M)
    ELSE assertCanControlAsync([M EXCEPT !.T.op = "stop"])

\* faulty variant: the frame is popped but the nested state stays
RestoreFrame_KeepsState(session, frame) ==
    [session EXCEPT !.stack = SubSeq(@, 1, Len(@) - 1),
                    !.file = frame.file,
                    !.data = frame.data,
                    !.node = frame.node,
                    !.history = <<>>]

\* faulty variant: the history of the nested graph is kept
RestoreFrame_KeepsHistory(session, frame) ==
    [session EXCEPT !.stack = SubSeq(@, 1, Len(@) - 1),
                    !.file = frame.file,
                    !.data = frame.data,
                    !.node = frame.node,
                    !.state = frame.state]

\* navigateReturnToParent: stack.pop() and "Restore parent context"
RestoreFrame(session, frame) ==
    [session EXCEPT !.stack = SubSeq(@, 1, Len(@) - 1),
                    !.file = frame.file,
                    !.data = frame.data,
                    !.node = frame.node,
                    !.state = frame.state,
                    !.history = <<>>]

\* faulty variant: the session advances without the label's assignments
AfterFinish_NoUpdate(M) ==
    LET s == M.P.activeSession
    IN IF ~s.present THEN Done(M)
       ELSE IF M.T.op = "choose"
       THEN LET next == Parsed(M.T).toNode
                M1 == [M EXCEPT !.P.activeSession.history = Append(@, s.node)]
            IN IF IsCanvasNode(next) THEN diveIntoCanvasForSession(M1, next)
               ELSE startTimerForActiveSession(
                      [M1 EXCEPT !.P.activeSession.node = next], "ui")
       ELSE IF s.stack = <<>> THEN stopActiveSession(M)
       ELSE LET frame == s.stack[Len(s.stack)]
            IN startTimerForActiveSession(
                 [M EXCEPT !.T.frame = frame,
                           !.P.activeSession = RestoreFrame(@, frame)],
                 "ui")

\* navigateToNode and navigateReturnToParent after the timer was finished
AfterFinish(M) ==
    LET s == M.P.activeSession
    IN IF ~s.present THEN Done(M)
       ELSE IF M.T.op = "choose"
       THEN LET next == Parsed(M.T).toNode
                M1 == [M EXCEPT !.P.activeSession.state = updateState(Parsed(M.T), @),
                                !.P.activeSession.history = Append(@, s.node)]
            IN IF IsCanvasNode(next) THEN diveIntoCanvasForSession(M1, next)
               ELSE startTimerForActiveSession(
                      [M1 EXCEPT !.P.activeSession.node = next], "ui")
       ELSE IF s.stack = <<>> THEN stopActiveSession(M)
       ELSE LET frame == s.stack[Len(s.stack)]
            IN startTimerForActiveSession(
                 [M EXCEPT !.T.frame = frame,
                           !.P.activeSession = RestoreFrame(@, frame)],
                 "ui")

\* the handler's code that follows a passed ownership check
AfterCheck(M) ==
    CASE M.T.op = "stop" -> StopChecked(M)
      [] M.T.op = "back" -> BackChecked(M)
      [] OTHER -> IF isRunning(M.P.sharedTimer) /\ M.P.activeSession.present
                  THEN finishTimerForActiveSession(M)
                  ELSE AfterFinish(M)

assertCanControlAsync(M) ==
    IF M.P.activeSession.present /\ M.fp
    THEN [M EXCEPT !.T.pc = "check_read"]
    ELSE AfterCheck(M)

navigateReturnToParent(M) ==
    IF ~M.P.activeSession.present \/ M.P.activeSession.stack = <<>>
    THEN stopActiveSession(M)
    ELSE assertCanControlAsync([M EXCEPT !.T.op = "return"])

(***************************************************************************)
(* Initial state: Obsidian has started on every device, nothing is played. *)
(* The canvas documents hold no TimingRecord, or one on every node, left   *)
(* by earlier sessions.                                                    *)
(***************************************************************************)
(***************************************************************************)
(* LogicEngine.parseLabel and ExpressionParser (logic.ts), on labels and   *)
(* expressions as the sequences of their characters.  A match of a regular *)
(* expression at a place is found the way the engine finds it: the         *)
(* identifier and the run of [^}] are the longest ones, which is the only  *)
(* choice that can be followed by the next character of the pattern.       *)
(***************************************************************************)
\* [a-zA-Z0-9_], as far as the labels and expressions of the model go
IdentifierChars == {"a", "b", "e", "f", "i", "l", "r", "s", "t", "u", "x"}

StartsWith(t, i, w) == i + Len(w) - 1 <= Len(t) /\ SubSeq(t, i, i + Len(w) - 1) = w

\* the length of the run of characters of the set cs that begins at place i
RECURSIVE Run(_, _, _)
Run(t, i, cs) == IF i <= Len(t) /\ t[i] \in cs THEN 1 + Run(t, i + 1, cs) ELSE 0

\* [^}]
NotBrace(t) == {t[i] : i \in 1..Len(t)} \ {"}"}

NoMatch == [len |-> 0]

\* /\{set:([a-zA-Z0-9_]+)=(true|false)\}/ at place i
MatchSet(t, i) ==
    LET j == i + 5
        k == j + Run(t, j, IdentifierChars)
    IN IF StartsWith(t, i, << "{", "s", "e", "t", ":" >>) /\ k > j
       THEN IF StartsWith(t, k, << "=", "t", "r", "u", "e", "}" >>)
            THEN [len |-> k + 6 - i, variable |-> SubSeq(t, j, k - 1), value |-> TRUE]
            ELSE IF StartsWith(t, k, << "=", "f", "a", "l", "s", "e", "}" >>)
            THEN [len |-> k + 7 - i, variable |-> SubSeq(t, j, k - 1), value |-> FALSE]
            ELSE NoMatch
       ELSE NoMatch

\* /\{if:([^}]+)\}/ at place i
MatchIf(t, i) ==
    LET j == i + 4
        k == j + Run(t, j, NotBrace(t))
    IN IF StartsWith(t, i, << "{", "i", "f", ":" >>) /\ k > j /\ StartsWith(t, k, << "}" >>)
       THEN [len |-> k + 1 - i, inner |-> SubSeq(t, j, k - 1)]
       ELSE NoMatch

\* the matches of setRegex from place i on, and the text without them
RECURSIVE ScanSets(_, _)
ScanSets(t, i) ==
    IF i > Len(t) THEN [text |-> << >>, found |-> << >>]
    ELSE IF MatchSet(t, i).len > 0
    THEN LET rest == ScanSets(t, i + MatchSet(t, i).len)
         IN [text |-> rest.text,
             found |-> << [variable |-> MatchSet(t, i).variable,
                           value |-> MatchSet(t, i).value] >> \o rest.found]
    ELSE LET rest == ScanSets(t, i + 1)
         IN [text |-> << t[i] >> \o rest.text, found |-> rest.found]

\* the matches of ifRegex from place i on, and the text without them
RECURSIVE ScanIfs(_, _)
ScanIfs(t, i) ==
    IF i > Len(t) THEN [text |-> << >>, found |-> << >>]
    ELSE IF MatchIf(t, i).len > 0
    THEN LET rest == ScanIfs(t, i + MatchIf(t, i).len)
         IN [text |-> rest.text,
             found |-> << << "(" >> \o MatchIf(t, i).inner \o << ")" >> >> \o rest.found]
    ELSE LET rest == ScanIfs(t, i + 1)
         IN [text |-> << t[i] >> \o rest.text, found |-> rest.found]

\* expressionParts.join(' & ')
RECURSIVE Join(_)
Join(parts) ==
    IF Len(parts) = 1 THEN parts[1]
    ELSE parts[1] \o << " ", "&", " " >> \o Join(Tail(parts))

\* /^[a-zA-Z0-9_]+(?:=(?:true|false))?/ at place i: the token and its length
MatchIdentifier(expr, i) ==
    LET k == i + Run(expr, i, IdentifierChars)
        name == SubSeq(expr, i, k - 1)
    IN IF k = i THEN NoMatch
       ELSE IF StartsWith(expr, k, << "=", "t", "r", "u", "e" >>)
       THEN [len |-> k + 5 - i, type |-> "IDENTIFIER", value |-> name]
       ELSE IF StartsWith(expr, k, << "=", "f", "a", "l", "s", "e" >>)
       THEN [len |-> k + 6 - i, type |-> "IDENTIFIER_FALSE", value |-> name]
       ELSE [len |-> k - i, type |-> "IDENTIFIER", value |-> name]

RECURSIVE tokenize(_, _)
tokenize(expr, i) ==
    IF i > Len(expr) THEN << >>
    ELSE IF expr[i] = " " THEN tokenize(expr, i + 1)
    ELSE IF expr[i] \in {"&", "|", "!", "(", ")"}
    THEN << [type |-> expr[i], value |-> << expr[i] >>] >> \o tokenize(expr, i + 1)
    ELSE IF MatchIdentifier(expr, i).len > 0
    THEN << [type |-> MatchIdentifier(expr, i).type,
             value |-> MatchIdentifier(expr, i).value] >>
         \o tokenize(expr, i + MatchIdentifier(expr, i).len)
    ELSE tokenize(expr, i + 1)

extractVariables(expr) ==
    {tokenize(expr, 1)[i].value :
        i \in {k \in 1..Len(tokenize(expr, 1)) :
                  tokenize(expr, 1)[k].type \in {"IDENTIFIER", "IDENTIFIER_FALSE"}}}

\* null: an expression of the code is never the empty string
NoExpression == << >>

parseLabel(label) ==
    LET sets == ScanSets(label, 1)
        ifs == ScanIfs(trim(sets.text), 1)
        expression == IF Len(ifs.found) > 0 THEN Join(ifs.found) ELSE NoExpression
    IN [text |-> trim(ifs.text),
        sets |-> sets.found,
        expression |-> expression,
        dependencies |-> IF expression # NoExpression
                         THEN extractVariables(expression) ELSE {}]

\* !!state[name]
Reads(state, name) == name \in DOMAIN state /\ state[name]

\* parseExpression: each function returns its value and the place pos it
\* leaves the token list at.
RECURSIVE parseE(_, _, _)
RECURSIVE parseERest(_, _, _, _)
RECURSIVE parseT(_, _, _)
RECURSIVE parseTRest(_, _, _, _)
RECURSIVE parseF(_, _, _)

parseE(tokens, state, pos) ==
    LET left == parseT(tokens, state, pos)
    IN parseERest(tokens, state, left.pos, left.val)

parseERest(tokens, state, pos, left) ==
    IF pos <= Len(tokens) /\ tokens[pos].type = "|"
    THEN LET right == parseT(tokens, state, pos + 1)
         IN parseERest(tokens, state, right.pos, left \/ right.val)
    ELSE [val |-> left, pos |-> pos]

parseT(tokens, state, pos) ==
    LET left == parseF(tokens, state, pos)
    IN parseTRest(tokens, state, left.pos, left.val)

\* faulty variant: what follows '&' is read as a whole expression
parseTRest_BindsLoosely(tokens, state, pos, left) ==
    IF pos <= Len(tokens) /\ tokens[pos].type = "&"
    THEN LET right == parseE(tokens, state, pos + 1)
         IN parseTRest(tokens, state, right.pos, left /\ right.val)
    ELSE [val |-> left, pos |-> pos]

parseTRest(tokens, state, pos, left) ==
    IF pos <= Len(tokens) /\ tokens[pos].type = "&"
    THEN LET right == parseF(tokens, state, pos + 1)
         IN parseTRest(tokens, state, right.pos, left /\ right.val)
    ELSE [val |-> left, pos |-> pos]

parseF(tokens, state, pos) ==
    IF pos > Len(tokens) THEN [val |-> TRUE, pos |-> pos]
    ELSE IF tokens[pos].type = "!"
    THEN LET f == parseF(tokens, state, pos + 1)
         IN [val |-> ~f.val, pos |-> f.pos]
    ELSE IF tokens[pos].type = "("
    THEN LET e == parseE(tokens, state, pos + 1)
         IN [val |-> e.val,
             pos |-> IF e.pos <= Len(tokens) /\ tokens[e.pos].type = ")"
                     THEN e.pos + 1 ELSE e.pos]
    ELSE IF tokens[pos].type = "IDENTIFIER"
    THEN [val |-> Reads(state, tokens[pos].value), pos |-> pos + 1]
    ELSE IF tokens[pos].type = "IDENTIFIER_FALSE"
    THEN [val |-> ~Reads(state, tokens[pos].value), pos |-> pos + 1]
    ELSE [val |-> FALSE, pos |-> pos + 1]

evaluate(expr, state) == parseE(tokenize(expr, 1), state, 1).val

(***************************************************************************)
(* The learned timing of a node (timingStats.ts, timingStorage.ts).  A     *)
(* time is a rational number of milliseconds [n, d] in lowest terms, so    *)
(* that the clamping and the smoothing are computed exactly; the program   *)
(* computes them in floating point.                                        *)
(***************************************************************************)
MAX_HISTORY == 5

RECURSIVE GCD(_, _)
GCD(a, b) == IF b = 0 THEN a ELSE GCD(b, a % b)

Rat(n, d) == [n |-> n \div GCD(n, d), d |-> d \div GCD(n, d)]
RAdd(a, b) == Rat(a.n * b.d + b.n * a.d, a.d * b.d)
RMul(a, b) == Rat(a.n * b.n, a.d * b.d)
RDiv(a, k) == Rat(a.n, a.d * k)
RLess(a, b) == a.n * b.d < b.n * a.d
RMax(a, b) == IF RLess(a, b) THEN b ELSE a
RMin(a, b) == IF RLess(a, b) THEN a ELSE b

SMOOTHING_ALPHA == Rat(7, 10)
CLAMP_MIN_RATIO == Rat(1, 2)
CLAMP_MAX_RATIO == Rat(7, 4)

RECURSIVE RSum(_)
RSum(h) == IF h = << >> THEN Rat(0, 1) ELSE RAdd(Head(h), RSum(Tail(h)))

RECURSIVE RLeast(_)
RLeast(h) == IF Len(h) = 1 THEN h[1] ELSE RMin(Head(h), RLeast(Tail(h)))

RECURSIVE RMost(_)
RMost(h) == IF Len(h) = 1 THEN h[1] ELSE RMax(Head(h), RMost(Tail(h)))

NoTiming == [present |-> FALSE]

\* Math.max(avg * CLAMP_MIN_RATIO, Math.min(avg * CLAMP_MAX_RATIO, elapsed))
Clamp(avgMs, newElapsedMs) ==
    IF avgMs.n > 0
    THEN RMax(RMul(avgMs, CLAMP_MIN_RATIO),
              RMin(RMul(avgMs, CLAMP_MAX_RATIO), newElapsedMs))
    ELSE newElapsedMs

\* The sum of sorted.slice(1, -1) is the sum without one least and one
\* greatest element.
updateRobustAverageMs(existingTiming, newElapsedMs) ==
    IF ~existingTiming.present
    THEN [present |-> TRUE, avgMs |-> newElapsedMs, samples |-> 1,
          historyMs |-> << newElapsedMs >>]
    ELSE LET clampedMs == Clamp(existingTiming.avgMs, newElapsedMs)
             appended == Append(existingTiming.historyMs, clampedMs)
             newHistory == IF Len(appended) > MAX_HISTORY THEN Tail(appended)
                           ELSE appended
             center ==
                 IF Len(newHistory) < 3
                 THEN RDiv(RSum(newHistory), Len(newHistory))
                 ELSE RDiv(RAdd(RSum(newHistory),
                                Rat(0 - (RLeast(newHistory).n * RMost(newHistory).d
                                         + RMost(newHistory).n * RLeast(newHistory).d),
                                    RLeast(newHistory).d * RMost(newHistory).d)),
                           Len(newHistory) - 2)
             newAvgMs == RAdd(RMul(SMOOTHING_ALPHA, existingTiming.avgMs),
                              RMul(Rat(3, 10), center))
         IN [present |-> TRUE, avgMs |-> newAvgMs,
             samples |-> existingTiming.samples + 1, historyMs |-> newHistory]

\* 'historyMs' in timing && Array.isArray(timing.historyMs)
toRobustTimingData(t) ==
    IF "historyMs" \in DOMAIN t THEN t
    ELSE [present |-> TRUE, avgMs |-> t.avgMs, samples |-> t.samples,
          historyMs |-> IF t.samples > 0 THEN << t.avgMs >> ELSE << >>]

toTimingData(robust) ==
    [present |-> TRUE, avgMs |-> robust.avgMs, samples |-> robust.samples]

\* What the node holds: the comment of a text node or of a linked note
\* (avgMs and samples), or the property canvasPlayerTiming of any other node
\* (the whole RobustTimingData).
saveTimingForNodeAs(kind, robust) ==
    IF kind = "comment" THEN toTimingData(robust) ELSE robust

\* Both parseTimingFromText and the fallback build { avgMs, samples } anew
\* from what the node holds and hand that to toRobustTimingData.
loadTimingForNode(held) ==
    IF ~held.present THEN NoTiming
    ELSE toRobustTimingData([present |-> TRUE, avgMs |-> held.avgMs,
                             samples |-> held.samples])

\* no node's timing is looked at
NoLearn == [kind |-> "none", held |-> NoTiming, returned |-> NoTiming, visits |-> << >>]

\* no pure function is called
NoCall == [fn |-> "none"]

(***************************************************************************)
(* calculatePoints (rewardCurve.ts).  The ratio is an exact rational;      *)
(* Math.log and Math.exp are computed in fixed point with four decimal     *)
(* places (a number x is held as the integer x * Scale), which puts the    *)
(* points before rounding within 0.05 of their value in the program.       *)
(***************************************************************************)
P_MAX == 12
Scale == 10000

PEAK_RATIO == Rat(93, 100)
MIN_RATIO == Rat(60, 100)
SIGMA_FAST == Rat(18, 100)
SIGMA_SLOW == Rat(28, 100)

\* x * y in fixed point
FMul(x, y) == (x * y) \div Scale

\* Math.log(r) = 2 atanh((r - 1) / (r + 1)), by its series up to z^9
Log(r) ==
    LET z == ((r.n - r.d) * Scale) \div (r.n + r.d)
        z2 == FMul(z, z)
        z3 == FMul(z2, z)
        z5 == FMul(z3, z2)
        z7 == FMul(z5, z2)
        z9 == FMul(z7, z2)
    IN 2 * (z + z3 \div 3 + z5 \div 5 + z7 \div 7 + z9 \div 9)

\* Math.exp(-y) for y >= 0: the series of exp(-y / 16) up to its fourth
\* power, squared four times; below exp(-8) it is taken as 0
ExpNeg(y) ==
    IF y >= 8 * Scale THEN 0
    ELSE LET t == y \div 16
             t2 == FMul(t, t)
             t3 == FMul(t2, t)
             t4 == FMul(t3, t)
             e1 == Scale - t + t2 \div 2 - t3 \div 6 + t4 \div 24
             e2 == FMul(e1, e1)
             e4 == FMul(e2, e2)
             e8 == FMul(e4, e4)
         IN FMul(e8, e8)

\* Math.exp(-(dx * dx) / (2 * sigma * sigma)); beyond |dx| = 0.8 it is below
\* 0.02 with either sigma and is taken as 0
Bell(dx, sigma) ==
    IF dx > 8000 \/ dx < 0 - 8000 THEN 0
    ELSE ExpNeg((((dx * dx) \div (2 * sigma.n * sigma.n)) * (sigma.d * sigma.d))
                \div Scale)

calculatePoints(elapsedMs, avgMs) ==
    IF avgMs.n <= 0 THEN 0
    ELSE LET r == Rat(elapsedMs.n * avgMs.d, elapsedMs.d * avgMs.n)
         IN IF RLess(r, MIN_RATIO) THEN 0
            ELSE LET x == Log(r)
                     xPeak == Log(PEAK_RATIO)
                     dx == x - xPeak
                     score == IF ~RLess(PEAK_RATIO, r) THEN Bell(dx, SIGMA_FAST)
                              ELSE Bell(dx, SIGMA_SLOW)
                 IN (P_MAX * score + Scale \div 2) \div Scale

(***************************************************************************)
(* The economy (economy.ts) and the shop (shopCatalog.ts, shopModal.ts).   *)
(* transactionsById is the sequence of its values in the order they were   *)
(* inserted, which is the order Object.values walks them in; the id of a   *)
(* transaction is its place, generateTransactionId's ids being taken as    *)
(* fresh.  purchases is the function from the ids of the items bought to   *)
(* their Purchase.  The prices of the catalog are scaled down to 1 and 2.  *)
(***************************************************************************)
\* transactions of one ledger
MaxTransactions == 4
\* points one completion may earn
MaxPoints == 2

SHOP_ITEMS ==
    << [id |-> "sticker.none", cost |-> 0],
       [id |-> "sticker.star", cost |-> 0],
       [id |-> "sticker.a", cost |-> 1],
       [id |-> "sticker.b", cost |-> 2] >>

ShopItemIds == {SHOP_ITEMS[i].id : i \in DOMAIN SHOP_ITEMS}

getShopItem(id) == SHOP_ITEMS[CHOOSE i \in DOMAIN SHOP_ITEMS : SHOP_ITEMS[i].id = id]

DEFAULT_ECONOMY_DATA ==
    [transactionsById |-> << >>,
     purchases |-> [i \in {} |-> 0],
     equippedStickerId |-> "sticker.star"]

NoTransaction == [id |-> 0, type |-> "none", amount |-> 0, itemId |-> ""]

RECURSIVE SumFrom(_, _, _)
SumFrom(txs, i, balance) ==
    IF i > Len(txs) THEN balance
    ELSE SumFrom(txs, i + 1,
                 IF txs[i].type = "earn" THEN balance + txs[i].amount
                 ELSE IF txs[i].type = "spend" THEN balance - txs[i].amount
                 ELSE balance)

calculateBalance(e) ==
    LET balance == SumFrom(e.transactionsById, 1, 0)
    IN IF balance > 0 THEN balance ELSE 0

\* What a call of recordEarn or recordSpend comes to: the economy it leaves,
\* the transaction it returns (NoTransaction for null) and whether it threw.
Outcome(e, tx, threw) == [economy |-> e, tx |-> tx, threw |-> threw]

recordEarn(e, points) ==
    IF points <= 0 THEN Outcome(e, NoTransaction, TRUE)
    ELSE LET tx == [id |-> Len(e.transactionsById) + 1, type |-> "earn",
                    amount |-> points, itemId |-> ""]
         IN Outcome([e EXCEPT !.transactionsById = Append(@, tx)], tx, FALSE)

\* recordSpend without its check of the purchases
recordSpend_BuysAgain(e, itemId, cost) ==
    IF cost <= 0 THEN Outcome(e, NoTransaction, TRUE)
    ELSE IF calculateBalance(e) < cost THEN Outcome(e, NoTransaction, FALSE)
    ELSE LET tx == [id |-> Len(e.transactionsById) + 1, type |-> "spend",
                    amount |-> cost, itemId |-> itemId]
         IN Outcome([e EXCEPT
                        !.transactionsById = Append(@, tx),
                        !.purchases =
                            [i \in DOMAIN @ \cup {itemId} |->
                                IF i = itemId THEN [itemId |-> itemId, txId |-> tx.id]
                                ELSE @[i]]],
                    tx, FALSE)

\* recordSpend without its check of the balance
recordSpend_Overdraws(e, itemId, cost) ==
    IF cost <= 0 THEN Outcome(e, NoTransaction, TRUE)
    ELSE IF itemId \in DOMAIN e.purchases THEN Outcome(e, NoTransaction, FALSE)
    ELSE LET tx == [id |-> Len(e.transactionsById) + 1, type |-> "spend",
                    amount |-> cost, itemId |-> itemId]
         IN Outcome([e EXCEPT
                        !.transactionsById = Append(@, tx),
                        !.purchases =
                            [i \in DOMAIN @ \cup {itemId} |->
                                IF i = itemId THEN [itemId |-> itemId, txId |-> tx.id]
                                ELSE @[i]]],
                    tx, FALSE)

recordSpend(e, itemId, cost) ==
    IF cost <= 0 THEN Outcome(e, NoTransaction, TRUE)
    ELSE IF calculateBalance(e) < cost THEN Outcome(e, NoTransaction, FALSE)
    ELSE IF itemId \in DOMAIN e.purchases THEN Outcome(e, NoTransaction, FALSE)
    ELSE LET tx == [id |-> Len(e.transactionsById) + 1, type |-> "spend",
                    amount |-> cost, itemId |-> itemId]
         IN Outcome([e EXCEPT
                        !.transactionsById = Append(@, tx),
                        !.purchases =
                            [i \in DOMAIN @ \cup {itemId} |->
                                IF i = itemId THEN [itemId |-> itemId, txId |-> tx.id]
                                ELSE @[i]]],
                    tx, FALSE)

isOwned(e, itemId) ==
    \/ itemId = "sticker.none" \/ itemId = "sticker.star"
    \/ itemId \in DOMAIN e.purchases

\* The shop modal: whether it is open, the balance and the owned items onOpen
\* drew it with, the purchases whose savePluginData is awaited, the notice
\* shown last and the last click on a Buy button (the item, the balance the
\* click found, and what recordSpend returned).
NoClick == [item |-> "", balance |-> 0, tx |-> NoTransaction, threw |-> FALSE]

NoShop ==
    [open |-> FALSE, balance |-> 0, owned |-> {}, saving |-> {}, notice |-> "",
     last |-> NoClick]

NewPlugin ==
    [activeSession |-> NoSession, activeModal |-> FALSE, shown |-> NoButtons,
     sharedTimer |-> NoTimer, lastApplied |-> 0, lastSeenHad |-> FALSE,
     earned |-> 0, notice |-> "", rootCanvasFile |-> ""]

Init ==
    /\ now = 1
    /\ sessionFile = NoFile
    /\ resumeData = NoFile
    /\ timing \in {[n \in NodeIds |-> 0], [n \in NodeIds |-> MaxSamples]}
    /\ dev = [d \in Devices |-> NewPlugin]
    /\ tasks = [d \in Devices |-> [s \in Slots |-> Idle]]
    /\ prevOwner = ""
    /\ misfiled = FALSE
    /\ invoked = 0
    /\ economy = DEFAULT_ECONOMY_DATA
    /\ shop = NoShop
    /\ zoom = NoStart
    /\ learn = NoLearn
    /\ call = NoCall

Mach(d, s, award) ==
    [d |-> d, P |-> dev[d], T |-> tasks[d][s], tm |-> timing, mis |-> misfiled,
     fp |-> sessionFile.present, now |-> now, award |-> award]

Commit(d, s, M) ==
    /\ dev' = [dev EXCEPT ![d] = M.P]
    /\ tasks' = [tasks EXCEPT ![d][s] = M.T]
    /\ timing' = M.tm
    /\ misfiled' = M.mis
    /\ invoked' = IF tasks[d][s].pc = "idle" THEN invoked + 1 ELSE invoked
    /\ UNCHANGED aside

\* the handlers of one device that are in flight
Busy(d) == {s \in Slots : tasks[d][s].pc # "idle"}

\* the slot a handler invoked now runs in, when limit invocations may overlap
FreeSlot(d, limit) ==
    IF invoked < MaxInvocations /\ \E s \in 1..limit : s \notin Busy(d)
    THEN CHOOSE s \in 1..limit : s \notin Busy(d) /\ \A r \in 1..(s - 1) : r \in Busy(d)
    ELSE 0

Invoke(d, s, op, award) ==
    [Mach(d, s, award) EXCEPT !.T = NewTask(op), !.P.notice = ""]

(***************************************************************************)
(* Invocations: a command or a button of the player starts a handler.      *)
(***************************************************************************)
\* command "Play": playActiveCanvas, playCanvasFromNode
PlayActiveCanvas(d, limit) ==
    LET s == FreeSlot(d, limit)
        M == Invoke(d, s, "play", FALSE)
    IN /\ s # 0
       /\ getStartNode("R") # NoNode
       /\ Commit(d, s, startTimerForActiveSession(
                [M EXCEPT !.P.rootCanvasFile = "R",
                          !.P.activeSession =
                     createActiveSession("R", "R", getStartNode("R"),
                                         EmptyState, <<>>)],
                "open"))
       /\ UNCHANGED << now, sessionFile, resumeData, prevOwner >>

\* "Play from here" on a card of the open canvas: playFromNode finds the card
\* and playCanvasFromNode starts a session on it. this.rootCanvasFile is set
\* only when it holds nothing, and the session's root is taken from it.
PlayFromNode(d, limit, file, node) ==
    LET s == FreeSlot(d, limit)
        M == Invoke(d, s, "play", FALSE)
        rootFile == IF M.P.rootCanvasFile = "" THEN file ELSE M.P.rootCanvasFile
    IN /\ s # 0
       /\ FindNode(file, node) # NoNode
       /\ Commit(d, s, startTimerForActiveSession(
                [M EXCEPT !.P.rootCanvasFile = rootFile,
                          !.P.activeSession =
                     createActiveSession(rootFile, file, node, EmptyState, <<>>)],
                "open"))
       /\ UNCHANGED << now, sessionFile, resumeData, prevOwner >>

\* command "Play from last": playActiveCanvasFromLast up to getResumeSession
PlayActiveCanvasFromLast(d, limit) ==
    LET s == FreeSlot(d, limit)
        M == Invoke(d, s, "resume", FALSE)
    IN /\ s # 0
       /\ Commit(d, s, [M EXCEPT !.T.pc = "resume_read"])
       /\ UNCHANGED << now, sessionFile, resumeData, prevOwner >>

\* a choice button of the rendered scene: navigateToNode(choice.parsed, nextNode),
\* called only "if (nextNode)": the click on a choice whose target node the
\* canvas does not hold does nothing
Choose(d, limit, e, award) ==
    LET s == FreeSlot(d, limit)
        M == [Invoke(d, s, "choose", award) EXCEPT !.T.edge = e,
                                                   !.T.data = dev[d].shown.data]
    IN /\ s # 0
       /\ dev[d].activeModal
       /\ e \in dev[d].shown.edges
       /\ Commit(d, s, IF FindNode(M.T.data, Parsed(M.T).toNode) = NoNode
                       THEN Mach(d, s, award)
                       ELSE IF M.P.activeSession.present
                       THEN assertCanControlAsync(M) ELSE Done(M))
       /\ UNCHANGED << now, sessionFile, resumeData, prevOwner >>

\* the Back button: navigateBack
Back(d, limit) ==
    LET s == FreeSlot(d, limit)
        M == Invoke(d, s, "back", FALSE)
    IN /\ s # 0
       /\ dev[d].activeModal
       /\ dev[d].shown.back
       /\ Commit(d, s, IF M.P.activeSession.present
                          /\ M.P.activeSession.history # <<>>
                       THEN assertCanControlAsync(M) ELSE Done(M))
       /\ UNCHANGED << now, sessionFile, resumeData, prevOwner >>

\* the "Return to Parent Canvas" button: navigateReturnToParent
ReturnToParent(d, limit, award) ==
    LET s == FreeSlot(d, limit)
        M == Invoke(d, s, "return", award)
    IN /\ s # 0
       /\ dev[d].activeModal
       /\ dev[d].shown.ret
       /\ Commit(d, s, navigateReturnToParent(M))
       /\ UNCHANGED << now, sessionFile, resumeData, prevOwner >>

\* the Stop button, "End of Path", or the stop command: stopActiveSession
Stop(d, limit) ==
    LET s == FreeSlot(d, limit)
        M == [Invoke(d, s, "stop", FALSE) EXCEPT !.T.closes = dev[d].activeModal]
    IN /\ s # 0
       /\ dev[d].activeSession.present
       /\ Commit(d, s, stopActiveSession(M))
       /\ UNCHANGED << now, sessionFile, resumeData, prevOwner >>

\* the "Take over" button or command: takeOverSession
TakeOver(d, limit) ==
    LET s == FreeSlot(d, limit)
        M == Invoke(d, s, "takeover", FALSE)
    IN /\ s # 0
       /\ dev[d].activeSession.present
       /\ Commit(d, s, saveActiveSessionState(M, TRUE, "takeover"))
       /\ UNCHANGED << now, sessionFile, resumeData, prevOwner >>

\* closing the modal while a session plays: minimizePlayer
MinimizePlayer(d) ==
    /\ dev[d].activeSession.present
    /\ dev[d].activeModal
    /\ dev' = [dev EXCEPT ![d].activeModal = FALSE, ![d].shown = NoButtons]
    /\ UNCHANGED << now, sessionFile, resumeData, timing, tasks, prevOwner, misfiled, invoked, aside >>

\* the restore command: restorePlayer opens the modal on the session
RestorePlayer(d) ==
    /\ dev[d].activeSession.present
    /\ ~dev[d].activeModal
    /\ dev' = [dev EXCEPT ![d] = renderScene([@ EXCEPT !.activeModal = TRUE])]
    /\ UNCHANGED << now, sessionFile, resumeData, timing, tasks, prevOwner, misfiled, invoked, aside >>

\* a toggle of the missing-variables prompt
Toggle(d, v) ==
    /\ dev[d].activeModal
    /\ dev[d].activeSession.present
    /\ v \in dev[d].shown.missing
    /\ v \in DOMAIN dev[d].activeSession.state
    /\ dev' = [dev EXCEPT ![d].activeSession.state[v] = ~@]
    /\ UNCHANGED << now, sessionFile, resumeData, timing, tasks, prevOwner, misfiled, invoked, aside >>

\* the Continue button of the missing-variables prompt: renderScene again
ContinuePrompt(d) ==
    /\ dev[d].activeModal
    /\ dev[d].shown.prompt
    /\ dev' = [dev EXCEPT ![d] = renderScene(@)]
    /\ UNCHANGED << now, sessionFile, resumeData, timing, tasks, prevOwner, misfiled, invoked, aside >>

(***************************************************************************)
(* Storage operations: each completes one await of the handler in slot s.  *)
(***************************************************************************)
\* faulty variant: a failed read refuses the action as a foreign snapshot does
CheckRead_FailsClosed(d, s, award) ==
    LET M == Mach(d, s, award)
    IN /\ tasks[d][s].pc = "check_read"
       /\ Commit(d, s, IF ~sessionFile.present
                          \/ ~isOwnerOfPersistedSession(sessionFile, d)
                       THEN Done([M EXCEPT !.P.notice = "readonly"])
                       ELSE AfterCheck(M))
       /\ UNCHANGED << now, sessionFile, resumeData, prevOwner >>

\* assertCanControlAsync: vault.read of the snapshot, then the check
CheckRead(d, s, award) ==
    LET M == Mach(d, s, award)
    IN /\ tasks[d][s].pc = "check_read"
       /\ Commit(d, s, IF sessionFile.present
                          /\ ~isOwnerOfPersistedSession(sessionFile, d)
                       THEN Done([M EXCEPT !.P.notice = "readonly"])
                       ELSE AfterCheck(M))
       /\ UNCHANGED << now, sessionFile, resumeData, prevOwner >>

\* finishTimerForActiveSession: savePluginData after recordEarn
FinishSavePluginData(d, s) ==
    /\ tasks[d][s].pc = "fin_plugin"
    /\ Commit(d, s, saveTimingForNode(Mach(d, s, FALSE)))
    /\ UNCHANGED << now, sessionFile, resumeData, prevOwner >>

\* finishTimerForActiveSession: vault.modify of the canvas, then the caller
FinishModify(d, s) ==
    /\ tasks[d][s].pc = "fin_modify"
    /\ Commit(d, s, AfterFinish(Mach(d, s, FALSE)))
    /\ UNCHANGED << now, sessionFile, resumeData, prevOwner >>

\* diveIntoCanvasForSession: vault.read of the target canvas, then the rest
DiveRead(d, s, award) ==
    LET M == Mach(d, s, award)
        start == getStartNode(M.T.target)
    IN /\ tasks[d][s].pc = "dive_read"
       /\ Commit(d, s,
            IF ~M.P.activeSession.present THEN Done(M)
            ELSE IF start = NoNode
            THEN navigateReturnToParent(
                   [M EXCEPT !.P.activeSession.data = M.T.target])
            ELSE startTimerForActiveSession(
                   [M EXCEPT !.P.activeSession.data = M.T.target,
                             !.P.activeSession.node = start,
                             !.P.activeSession.history = <<>>],
                   "ui"))
       /\ UNCHANGED << now, sessionFile, resumeData, prevOwner >>

\* saveActiveSessionState: vault.read, the ownership check, the new snapshot
SaveRead(d, s) ==
    LET M == Mach(d, s, FALSE)
    IN /\ tasks[d][s].pc = "save_read"
       /\ Commit(d, s,
            IF sessionFile.present /\ ~M.T.force
               /\ ~isOwnerOfPersistedSession(sessionFile, d)
            THEN Continue(M)
            ELSE IF ~M.P.activeSession.present THEN Done(M)
            ELSE [M EXCEPT !.T.content =
                              Persisted(M.P, d, now, M.T.force, sessionFile),
                           !.T.pc = "save_delete"])
       /\ UNCHANGED << now, sessionFile, resumeData, prevOwner >>

\* saveActiveSessionState: vault.delete of the file found at the start.
\* Deleting a file that is gone by now either throws or does nothing.
SaveDelete(d, s, throws) ==
    LET M == Mach(d, s, FALSE)
    IN /\ tasks[d][s].pc = "save_delete"
       /\ sessionFile' = NoFile
       /\ Commit(d, s, IF ~sessionFile.present /\ throws
                       THEN Continue(M)
                       ELSE [M EXCEPT !.T.pc = "save_create"])
       /\ UNCHANGED << now, resumeData, prevOwner >>

\* saveActiveSessionState: vault.create, which throws when the file exists
SaveCreate(d, s) ==
    LET M == Mach(d, s, FALSE)
    IN /\ tasks[d][s].pc = "save_create"
       /\ IF sessionFile.present
          THEN /\ Commit(d, s, Continue(M))
               /\ UNCHANGED << sessionFile, prevOwner >>
          ELSE /\ sessionFile' = M.T.content
               /\ prevOwner' = M.T.content.ownerDeviceId
               /\ Commit(d, s, Continue(
                     [M EXCEPT !.P.lastApplied = M.T.content.updatedAtMs]))
       /\ UNCHANGED << now, resumeData >>

\* faulty variant: Stop finishes the running timer and stores its sample
StopSaveResume_Commits(d, s) ==
    LET M == Mach(d, s, FALSE)
        n == M.P.sharedTimer.visit
    IN /\ tasks[d][s].pc = "stop_save"
       /\ resumeData' = M.T.content
       /\ Commit(d, s, clearActiveSessionState(
            [M EXCEPT !.tm = IF isRunning(M.P.sharedTimer)
                             THEN [@ EXCEPT ![n] = updateRobustAverage(@)]
                             ELSE @,
                      !.P.sharedTimer = TimerFinish(@),
                      !.P.activeSession = NoSession,
                      !.P.activeModal = FALSE,
                      !.P.shown = NoButtons,
                      !.T.kont = "stopped"]))
       /\ UNCHANGED << now, sessionFile, prevOwner >>

\* stopActiveSession: saveResumeSession has written the entry; the clean up
StopSaveResume(d, s) ==
    LET M == Mach(d, s, FALSE)
    IN /\ tasks[d][s].pc = "stop_save"
       /\ resumeData' = M.T.content
       /\ Commit(d, s, clearActiveSessionState(
            [M EXCEPT !.P.sharedTimer = TimerAbort(abortTimerForActiveSession(@)),
                      !.P.activeSession = NoSession,
                      !.P.activeModal = FALSE,
                      !.P.shown = NoButtons,
                      !.T.kont = "stopped"]))
       /\ UNCHANGED << now, sessionFile, prevOwner >>

\* clearActiveSessionState: vault.read and the ownership check
ClearRead(d, s) ==
    LET M == Mach(d, s, FALSE)
    IN /\ tasks[d][s].pc = "clear_read"
       /\ Commit(d, s, IF sessionFile.present
                          /\ isOwnerOfPersistedSession(sessionFile, d)
                       THEN [M EXCEPT !.T.pc = "clear_delete"]
                       ELSE Continue(M))
       /\ UNCHANGED << now, sessionFile, resumeData, prevOwner >>

\* clearActiveSessionState: vault.delete
ClearDelete(d, s) ==
    /\ tasks[d][s].pc = "clear_delete"
    /\ sessionFile' = NoFile
    /\ prevOwner' = IF sessionFile.present THEN "" ELSE prevOwner
    /\ Commit(d, s, Continue(Mach(d, s, FALSE)))
    /\ UNCHANGED << now, resumeData >>

\* playActiveCanvasFromLast: getResumeSession has read the entry
ResumeRead(d, s) ==
    LET M == Mach(d, s, FALSE)
        e == resumeData
        valid == e.present /\ validateResumeSession(e) = ""
        session == IF valid
                   THEN createActiveSession("R", e.currentFilePath, e.currentNodeId,
                            e.currentSessionState, restoreStackFromResume(e.stack))
                   ELSE createActiveSession("R", "R", getStartNode("R"),
                                            EmptyState, <<>>)
    IN /\ tasks[d][s].pc = "resume_read"
       /\ resumeData' = IF valid THEN resumeData ELSE NoFile
       /\ Commit(d, s, startTimerForActiveSession(
                          [M EXCEPT !.P.rootCanvasFile = "R",
                                    !.P.activeSession = session,
                                    !.P.notice = IF e.present /\ ~valid
                                                 THEN "cannot_resume" ELSE @],
                          "open"))
       /\ UNCHANGED << now, sessionFile, prevOwner >>

(***************************************************************************)
(* The sync watcher: reloadSessionStateIfNewer, run by the vault events    *)
(* and by the 2 s poll.                                                    *)
(***************************************************************************)
\* Case 1 of reloadSessionStateIfNewer: the file is gone after the grace period
RemoteDeletion(M) ==
    LET P == M.P
        P1 == IF P.lastSeenHad /\ P.activeSession.present
              THEN updateAllUIs([P EXCEPT !.activeSession = NoSession,
                                          !.sharedTimer = TimerAbort(@)])
              ELSE P
    IN Done([M EXCEPT !.P = [P1 EXCEPT !.lastSeenHad = FALSE, !.lastApplied = 0]])

\* the watcher runs beside the handler the user started, in the last slot
WatcherSlot == MaxTasks

Watch(d) ==
    LET s == WatcherSlot
        M == [Mach(d, s, FALSE) EXCEPT !.T = NewTask("watch")]
    IN /\ invoked < MaxInvocations
       /\ tasks[d][s].pc = "idle"
       /\ Commit(d, s, [M EXCEPT !.T.pc = IF sessionFile.present
                                          THEN "w_read" ELSE "w_grace"])
       /\ UNCHANGED << now, sessionFile, resumeData, prevOwner >>

\* the 1000 ms grace period is over
WatchGrace(d, s) ==
    LET M == Mach(d, s, FALSE)
    IN /\ tasks[d][s].pc = "w_grace"
       /\ Commit(d, s, IF sessionFile.present
                       THEN [M EXCEPT !.T.pc = "w_read"]
                       ELSE RemoteDeletion(M))
       /\ UNCHANGED << now, sessionFile, resumeData, prevOwner >>

\* vault.read of the snapshot, Case 2 up to restoreActiveSessionState
WatchRead(d, s) ==
    LET M == Mach(d, s, FALSE)
        M1 == [M EXCEPT !.P.lastSeenHad = TRUE]
    IN /\ tasks[d][s].pc = "w_read"
       /\ Commit(d, s,
            IF ~sessionFile.present THEN Done(M)
            ELSE IF sessionFile.updatedAtMs <= M.P.lastApplied THEN Done(M1)
            ELSE IF isOwnerOfPersistedSession(sessionFile, d)
            THEN Done([M1 EXCEPT !.P.lastApplied = sessionFile.updatedAtMs])
            ELSE [M1 EXCEPT !.T.content = sessionFile, !.T.pc = "w_restore"])
       /\ UNCHANGED << now, sessionFile, resumeData, prevOwner >>

\* faulty variant: the snapshot is marked as applied but not installed
WatchRestore_MarksOnly(d, s) ==
    LET M == Mach(d, s, FALSE)
    IN /\ tasks[d][s].pc = "w_restore"
       /\ Commit(d, s, Done([M EXCEPT !.P.lastApplied = M.T.content.updatedAtMs]))
       /\ UNCHANGED << now, sessionFile, resumeData, prevOwner >>

\* restoreActiveSessionState: its own vault.read of the snapshot, the restore
WatchRestore(d, s) ==
    LET M == Mach(d, s, FALSE)
        f == sessionFile
        ok == /\ f.present
              /\ FindNode(f.currentFilePath, f.currentNodeId) # NoNode
              /\ StackRestorable(f.stack)
        session == [present |-> TRUE, root |-> f.rootFilePath,
                    file |-> f.currentFilePath, data |-> f.currentFilePath,
                    node |-> f.currentNodeId, state |-> f.state,
                    stack |-> restoreStackFromResume(f.stack),
                    history |-> SelectSeq(f.historyNodeIds,
                        LAMBDA n : FindNode(f.currentFilePath, n) # NoNode)]
        P1 == IF ok
              THEN updateAllUIs([M.P EXCEPT
                       !.activeSession = session,
                       !.sharedTimer = TimerStart(@, f.currentNodeId)])
              ELSE M.P
    IN /\ tasks[d][s].pc = "w_restore"
       /\ Commit(d, s, Done([M EXCEPT !.P =
                    [P1 EXCEPT !.lastApplied = M.T.content.updatedAtMs]]))
       /\ UNCHANGED << now, sessionFile, resumeData, prevOwner >>

\* a minute passes; the handlers in flight, which take milliseconds, are done
Tick ==
    /\ now < MaxTime
    /\ \A d \in Devices : Busy(d) = {}
    /\ now' = now + 1
    /\ UNCHANGED << sessionFile, resumeData, timing, dev, tasks, prevOwner, misfiled,
                    invoked, aside >>

(***************************************************************************)
(* Spec: two devices share the vault; on each device the user waits for an *)
(* action to complete before the next, and the watcher runs beside it.     *)
(***************************************************************************)
Invocation(d, limit) ==
    \/ PlayActiveCanvas(d, limit)
    \/ PlayActiveCanvasFromLast(d, limit)
    \/ \E e \in 1..4, award \in BOOLEAN : Choose(d, limit, e, award)
    \/ Back(d, limit)
    \/ \E award \in BOOLEAN : ReturnToParent(d, limit, award)
    \/ Stop(d, limit)
    \/ RestorePlayer(d)
    \/ \E v \in Vars : Toggle(d, v)
    \/ ContinuePrompt(d)

StorageStep(d, s) ==
    \/ \E award \in BOOLEAN : CheckRead(d, s, award)
    \/ FinishSavePluginData(d, s)
    \/ FinishModify(d, s)
    \/ \E award \in BOOLEAN : DiveRead(d, s, award)
    \/ SaveRead(d, s)
    \/ \E throws \in BOOLEAN : SaveDelete(d, s, throws)
    \/ SaveCreate(d, s)
    \/ StopSaveResume(d, s)
    \/ ClearRead(d, s)
    \/ ClearDelete(d, s)
    \/ ResumeRead(d, s)

Next ==
    \/ \E d \in Devices : Invocation(d, 1)
    \/ \E d \in Devices : TakeOver(d, 1)
    \/ \E d \in Devices : Watch(d)
    \/ \E d \in Devices, s \in Slots :
          StorageStep(d, s) \/ WatchGrace(d, s) \/ WatchRead(d, s) \/ WatchRestore(d, s)
    \/ Tick

Spec == Init /\ [][Next]_vars

(***************************************************************************)
(* SpecReentrant: one device, whose user does not wait: up to MaxTasks     *)
(* handlers are in flight together.                                        *)
(***************************************************************************)
NextReentrant ==
    \/ Invocation("d1", MaxTasks)
    \/ TakeOver("d1", MaxTasks)
    \/ \E s \in Slots : StorageStep("d1", s)

SpecReentrant == Init /\ [][NextReentrant]_vars

\* One device on its own, one handler at a time, with the player window
\* minimized and restored at any moment.
NextSolo ==
    \/ Invocation("d1", 1)
    \/ MinimizePlayer("d1")
    \/ \E s \in Slots : StorageStep("d1", s)
    \/ Tick

SpecSolo == Init /\ [][NextSolo]_vars

(***************************************************************************)
(* SpecMirror: device d1 plays, device d2 only mirrors.  On d2 the reload  *)
(* is started by the 2 s poll and by the debounced vault events, neither   *)
(* of which waits for a reload that is still running, so two reloads may   *)
(* overlap.  The interval timer keeps firing and every awaited storage     *)
(* operation or timeout of a reload completes.                             *)
(***************************************************************************)
Mirror == "d2"

\* setupReactiveSyncWatcher: the poll or a vault event starts a reload.  A
\* reload that finds no file and waits the grace period notes in since the
\* mark it is given (SpecGrace: the number of handlers invoked so far).
Poll(d, s, mark) ==
    LET M == [Mach(d, s, FALSE) EXCEPT !.T = NewTask("watch")]
    IN /\ tasks[d][s].pc = "idle"
       /\ tasks' = [tasks EXCEPT ![d][s] =
                      IF sessionFile.present
                      THEN [M.T EXCEPT !.pc = "w_read"]
                      ELSE [M.T EXCEPT !.pc = "w_grace", !.since = mark]]
       /\ UNCHANGED << now, sessionFile, resumeData, timing, dev, prevOwner,
                       misfiled, invoked, aside >>

\* the owner plays, chooses and stops
OwnerInvocation(d) ==
    /\ invoked < MirrorInvocations
    /\ \/ PlayActiveCanvas(d, 1)
       \/ \E e \in 1..4 : Choose(d, 1, e, FALSE)
       \/ Stop(d, 1)

\* the storage operations those handlers await
OwnerStorageStep(d, s) ==
    \/ CheckRead(d, s, FALSE)
    \/ FinishModify(d, s)
    \/ DiveRead(d, s, FALSE)
    \/ SaveRead(d, s)
    \/ \E throws \in BOOLEAN : SaveDelete(d, s, throws)
    \/ SaveCreate(d, s)
    \/ StopSaveResume(d, s)
    \/ ClearRead(d, s)
    \/ ClearDelete(d, s)

\* the reloads of the mirror and its player window
MirrorStep(mark) ==
    \/ RestorePlayer(Mirror)
    \/ \E s \in Slots : Poll(Mirror, s, mark)
    \/ \E s \in Slots : WatchGrace(Mirror, s)
    \/ \E s \in Slots : WatchRead(Mirror, s)
    \/ \E s \in Slots : WatchRestore(Mirror, s)

NextMirror ==
    \/ OwnerInvocation("d1")
    \/ \E s \in Slots : OwnerStorageStep("d1", s)
    \/ MirrorStep(0)
    \/ now < MirrorTime /\ Tick

FairMirror ==
    /\ WF_vars(Poll(Mirror, WatcherSlot, 0))
    /\ \A s \in Slots : /\ WF_vars(WatchGrace(Mirror, s))
                        /\ WF_vars(WatchRead(Mirror, s))
                        /\ WF_vars(WatchRestore(Mirror, s))

\* no node has a timing record yet
InitMirror == Init /\ timing = [n \in NodeIds |-> 0]

SpecMirror == InitMirror /\ [][NextMirror]_vars /\ FairMirror

\* SpecGrace: the same two devices, where each reload that waits the grace
\* period notes how many handlers had been invoked when it began to wait.
NextGrace ==
    \/ OwnerInvocation("d1")
    \/ \E s \in Slots : OwnerStorageStep("d1", s)
    \/ MirrorStep(invoked)

SpecGrace == InitMirror /\ [][NextGrace]_vars

(***************************************************************************)
(* SpecResume: one device, whose resume entry of root R was saved by an    *)
(* earlier run of the plugin.  Since then the vault may have changed: the  *)
(* canvas X the entry or a frame names was deleted, or a node it names was *)
(* moved to another canvas.  The entry may also lead into the damaged      *)
(* canvas D.                                                               *)
(***************************************************************************)
ResumeFrames ==
    { <<>> } \cup
    { << [filePath |-> f, currentNodeId |-> n, state |-> [k |-> TRUE]] >> :
        f \in {"R", "X"}, n \in {"f", "s1"} }

ResumeEntries ==
    { [present |-> TRUE, rootFilePath |-> "R", currentFilePath |-> f,
       currentNodeId |-> n, currentSessionState |-> EmptyState, stack |-> sk] :
        f \in {"R", "S", "D", "X"}, n \in {"a", "s1", "d1"}, sk \in ResumeFrames }

InitResume ==
    /\ now = 1
    /\ sessionFile = NoFile
    /\ resumeData \in ResumeEntries \cup {NoFile}
    /\ timing = [n \in NodeIds |-> 0]
    /\ dev = [d \in Devices |-> NewPlugin]
    /\ tasks = [d \in Devices |-> [s \in Slots |-> Idle]]
    /\ prevOwner = ""
    /\ misfiled = FALSE
    /\ invoked = 0
    /\ economy = DEFAULT_ECONOMY_DATA
    /\ shop = NoShop
    /\ zoom = NoStart
    /\ learn = NoLearn
    /\ call = NoCall

NextResume ==
    \/ invoked < MirrorInvocations /\ PlayActiveCanvasFromLast("d1", 1)
    \/ OwnerInvocation("d1")
    \/ \E s \in Slots : OwnerStorageStep("d1", s)
    \/ \E s \in Slots : ResumeRead("d1", s)

SpecResume == InitResume /\ [][NextResume]_vars

(***************************************************************************)
(* SpecStart: the command "zoom to start" on any small canvas.  The canvas *)
(* and the startText setting are whatever the user left; the one handler   *)
(* is zoomToStartOfActiveCanvas once vault.read has returned the canvas.   *)
(***************************************************************************)
\* the variables of the player, which neither the zoom nor the shop touches
player ==
    << now, sessionFile, resumeData, timing, dev, tasks, prevOwner, misfiled,
       invoked >>

SeqsUpTo(S, n) == UNION {[1..k -> S] : k \in 0..n}

\* what a node may be: a text card "S", "xs" or "x", a file card that holds
\* a text all the same and a text card without a text
StartNodeKinds ==
    { [type |-> "text", hasText |-> TRUE, text |-> << "S" >>],
      [type |-> "text", hasText |-> TRUE, text |-> << "x", "s" >>],
      [type |-> "text", hasText |-> TRUE, text |-> << "x" >>],
      [type |-> "file", hasText |-> TRUE, text |-> << "s" >>],
      [type |-> "text", hasText |-> FALSE, text |-> << >>] }

StartEdges ==
    [fromNode : {StartIds[i] : i \in 1..MaxNodes},
     toNode : {StartIds[i] : i \in 1..MaxNodes} \cup {"zz"}]

StartCanvases ==
    { [nodes |-> [i \in 1..Len(ks) |->
                     [id |-> StartIds[i], type |-> ks[i].type,
                      hasText |-> ks[i].hasText, text |-> ks[i].text]],
       edges |-> es] :
        ks \in SeqsUpTo(StartNodeKinds, MaxNodes),
        es \in SeqsUpTo(StartEdges, MaxEdges) }

\* settings.startText: none, blanks only, and "S " (the marker "s")
StartTexts == { << >>, << " " >>, << "S", " " >> }

InitStart ==
    /\ now = 1
    /\ sessionFile = NoFile
    /\ resumeData = NoFile
    /\ timing = [n \in NodeIds |-> 0]
    /\ dev = [d \in Devices |-> NewPlugin]
    /\ tasks = [d \in Devices |-> [s \in Slots |-> Idle]]
    /\ prevOwner = ""
    /\ misfiled = FALSE
    /\ invoked = 0
    /\ economy = DEFAULT_ECONOMY_DATA
    /\ shop = NoShop
    /\ zoom \in { [pc |-> "read", data |-> c, startText |-> t, node |-> NoNode,
                   notice |-> ""] : c \in StartCanvases, t \in StartTexts }
    /\ learn = NoLearn
    /\ call = NoCall

zoomToStartOfActiveCanvas ==
    /\ zoom.pc = "read"
    /\ LET startNode == getStartNodeIn(zoom.data, zoom.startText)
       IN zoom' = [zoom EXCEPT
                      !.pc = "done",
                      !.node = startNode,
                      !.notice = IF startNode = NoNode THEN "cannot_zoom" ELSE ""]
    /\ UNCHANGED << player, economy, shop, learn, call >>

NextStart == zoomToStartOfActiveCanvas

SpecStart == InitStart /\ [][NextStart]_vars

(***************************************************************************)
(* SpecShop: the ledger of one device under completions that earn points   *)
(* and under the shop modal.  A click on Buy calls recordSpend at once and *)
(* redraws the modal only when savePluginData has returned, so a second    *)
(* click may find the buttons of the balance and the purchases as they     *)
(* were drawn before the first.                                            *)
(***************************************************************************)
\* onOpen: the balance and the owned items the modal is drawn with
onOpen(sh, e) ==
    [sh EXCEPT !.balance = calculateBalance(e),
               !.owned = {i \in ShopItemIds : isOwned(e, i)}]

\* the command that opens the shop
OpenShop ==
    /\ ~shop.open
    /\ shop' = [onOpen(shop, economy) EXCEPT !.open = TRUE]
    /\ UNCHANGED << player, economy, zoom, learn, call >>

CloseShop ==
    /\ shop.open
    /\ shop' = [shop EXCEPT !.open = FALSE]
    /\ UNCHANGED << player, economy, zoom, learn, call >>

\* a completed node earns points (finishTimerForActiveSession)
EarnPoints(points) ==
    /\ Len(economy.transactionsById) < MaxTransactions
    /\ economy' = recordEarn(economy, points).economy
    /\ UNCHANGED << player, shop, zoom, learn, call >>

\* the click on the Buy button of an item, up to its await of savePluginData
ClickBuy(id) ==
    LET item == getShopItem(id)
        canAfford == shop.balance >= item.cost
        r == recordSpend(economy, item.id, item.cost)
        click == [item |-> id, balance |-> calculateBalance(economy),
                  tx |-> r.tx, threw |-> r.threw]
    IN /\ shop.open
       /\ ~(item.cost = 0 /\ item.id # "sticker.none")
       /\ id \notin shop.owned
       /\ canAfford
       /\ economy' = r.economy
       /\ shop' = IF r.threw THEN [shop EXCEPT !.last = click]
                  ELSE IF r.tx # NoTransaction
                  THEN [shop EXCEPT !.saving = @ \cup {id}, !.last = click]
                  ELSE [shop EXCEPT
                           !.notice = IF ~canAfford THEN "Insufficient points"
                                      ELSE "Already owned",
                           !.last = click]
       /\ UNCHANGED << player, zoom, learn, call >>

\* savePluginData has returned: the notice, and the modal is drawn again
BuySaved(id) ==
    /\ id \in shop.saving
    /\ shop' = [onOpen(shop, economy) EXCEPT !.saving = @ \ {id},
                                             !.notice = "Purchased"]
    /\ UNCHANGED << player, economy, zoom, learn, call >>

InitShop == InitMirror

NextShop ==
    \/ OpenShop
    \/ CloseShop
    \/ \E points \in 1..MaxPoints : EarnPoints(points)
    \/ \E id \in ShopItemIds : ClickBuy(id)
    \/ \E id \in ShopItemIds : BuySaved(id)

SpecShop == InitShop /\ [][NextShop]_vars

(***************************************************************************)
(* SpecTiming: one node is visited and finished again and again, each time *)
(* after some elapsed time; the node keeps its timing in a comment or in   *)
(* its property canvasPlayerTiming.                                        *)
(***************************************************************************)
\* finished visits of the node
MaxVisits == 3

\* the elapsed times of a visit, in milliseconds
ElapsedTimes == {1, 2, 4, 8}

InitTiming ==
    /\ now = 1
    /\ sessionFile = NoFile
    /\ resumeData = NoFile
    /\ timing = [n \in NodeIds |-> 0]
    /\ dev = [d \in Devices |-> NewPlugin]
    /\ tasks = [d \in Devices |-> [s \in Slots |-> Idle]]
    /\ prevOwner = ""
    /\ misfiled = FALSE
    /\ invoked = 0
    /\ economy = DEFAULT_ECONOMY_DATA
    /\ shop = NoShop
    /\ zoom = NoStart
    /\ learn \in { [NoLearn EXCEPT !.kind = k] : k \in {"comment", "property"} }
    /\ call = NoCall

\* finishTimerForActiveSession on the node: load, update, save
FinishTimer(elapsedMs) ==
    /\ learn.kind # "none"
    /\ Len(learn.visits) < MaxVisits
    /\ LET existingTiming == loadTimingForNode(learn.held)
           newTiming == updateRobustAverageMs(existingTiming, Rat(elapsedMs, 1))
       IN learn' = [learn EXCEPT
                       !.held = saveTimingForNodeAs(learn.kind, newTiming),
                       !.returned = newTiming,
                       !.visits = Append(@,
                           [elapsedMs |-> Rat(elapsedMs, 1),
                            first |-> ~existingTiming.present,
                            avgMs |-> IF existingTiming.present
                                      THEN existingTiming.avgMs ELSE Rat(0, 1)])]
    /\ UNCHANGED << player, economy, shop, zoom, call >>

NextTiming == \E elapsedMs \in ElapsedTimes : FinishTimer(elapsedMs)

SpecTiming == InitTiming /\ [][NextTiming]_vars

(***************************************************************************)
(* SpecLabel: parseLabel on the label of an edge, and once more on the     *)
(* text it returned.  A label is put together from a few pieces: tags,     *)
(* halves of tags, a name and a blank.                                     *)
(***************************************************************************)
\* pieces of one label
MaxPieces == 4

LabelPieces ==
    { << "{", "s", "e", "t", ":" >>,
      << "=", "t", "r", "u", "e", "}" >>,
      << "a" >>,
      << "{", "i", "f", ":" >>,
      << "}" >>,
      << " " >>,
      << "{", "i", "f", ":", "a", "}" >>,
      << "{", "s", "e", "t", ":", "b", "=", "f", "a", "l", "s", "e", "}" >> }

RECURSIVE Flatten(_)
Flatten(pieces) ==
    IF pieces = << >> THEN << >> ELSE Head(pieces) \o Flatten(Tail(pieces))

Labels == {Flatten(ps) : ps \in SeqsUpTo(LabelPieces, MaxPieces)}

NoParsed == [text |-> << >>, sets |-> << >>, expression |-> NoExpression,
             dependencies |-> {}]

InitLabel ==
    /\ now = 1
    /\ sessionFile = NoFile
    /\ resumeData = NoFile
    /\ timing = [n \in NodeIds |-> 0]
    /\ dev = [d \in Devices |-> NewPlugin]
    /\ tasks = [d \in Devices |-> [s \in Slots |-> Idle]]
    /\ prevOwner = ""
    /\ misfiled = FALSE
    /\ invoked = 0
    /\ economy = DEFAULT_ECONOMY_DATA
    /\ shop = NoShop
    /\ zoom = NoStart
    /\ learn = NoLearn
    /\ call \in { [fn |-> "parseLabel", pc |-> "label", label |-> l,
                   parsed |-> NoParsed, reparsed |-> NoParsed] : l \in Labels }

\* parseLabel(label), and then parseLabel of the text it returned
ParseLabel ==
    /\ call.fn = "parseLabel"
    /\ \/ /\ call.pc = "label"
          /\ call' = [call EXCEPT !.pc = "parsed", !.parsed = parseLabel(call.label)]
       \/ /\ call.pc = "parsed"
          /\ call' = [call EXCEPT !.pc = "reparsed",
                                  !.reparsed = parseLabel(call.parsed.text)]
    /\ UNCHANGED << player, economy, shop, zoom, learn >>

NextLabel == ParseLabel

SpecLabel == InitLabel /\ [][NextLabel]_vars

(***************************************************************************)
(* SpecExpr: evaluate on the text of an expression and a state of the      *)
(* variables.  The expressions are all those of the grammar with up to two *)
(* operators above one another, over the atoms a, b and a=false, written   *)
(* with the fewest parentheses the grammar needs.                          *)
(***************************************************************************)
VariableNames == { << "a" >>, << "b" >> }

GameStates == UNION {[D -> BOOLEAN] : D \in SUBSET VariableNames}

\* an expression: <<"id", name>>, <<"idfalse", name>>, <<"not", e>>,
\* <<"and", e, f>> or <<"or", e, f>>
Atoms == { << "id", << "a" >> >>, << "id", << "b" >> >>, << "idfalse", << "a" >> >> }

Compound(E) ==
    E \cup { << "not", e >> : e \in E }
      \cup { << "and", e, f >> : e \in E, f \in E }
      \cup { << "or", e, f >> : e \in E, f \in E }

Expressions == Compound(Compound(Atoms))

\* The text of an expression where the grammar expects an Expr (0), a Term
\* (1) or a Factor (2).
RECURSIVE Written(_, _)
Written(e, level) ==
    IF e[1] = "id" THEN e[2]
    ELSE IF e[1] = "idfalse" THEN e[2] \o << "=", "f", "a", "l", "s", "e" >>
    ELSE IF e[1] = "not" THEN << "!" >> \o Written(e[2], 2)
    ELSE IF e[1] = "and"
    THEN IF level > 1
         THEN << "(" >> \o Written(e[2], 2) \o << "&" >> \o Written(e[3], 2) \o << ")" >>
         ELSE Written(e[2], 2) \o << "&" >> \o Written(e[3], 2)
    ELSE IF level > 0
         THEN << "(" >> \o Written(e[2], 1) \o << " ", "|", " " >> \o Written(e[3], 1)
              \o << ")" >>
         ELSE Written(e[2], 1) \o << " ", "|", " " >> \o Written(e[3], 1)

InitExpr ==
    /\ now = 1
    /\ sessionFile = NoFile
    /\ resumeData = NoFile
    /\ timing = [n \in NodeIds |-> 0]
    /\ dev = [d \in Devices |-> NewPlugin]
    /\ tasks = [d \in Devices |-> [s \in Slots |-> Idle]]
    /\ prevOwner = ""
    /\ misfiled = FALSE
    /\ invoked = 0
    /\ economy = DEFAULT_ECONOMY_DATA
    /\ shop = NoShop
    /\ zoom = NoStart
    /\ learn = NoLearn
    /\ call \in { [fn |-> "evaluate", pc |-> "called", of |-> e,
                   expression |-> Written(e, 0), state |-> st, result |-> FALSE] :
                     e \in Expressions, st \in GameStates }

\* checkConditions: ExpressionParser.evaluate(parsed.expression, state)
Evaluate ==
    /\ call.fn = "evaluate"
    /\ call.pc = "called"
    /\ call' = [call EXCEPT !.pc = "returned",
                            !.result = evaluate(call.expression, call.state)]
    /\ UNCHANGED << player, economy, shop, zoom, learn >>

NextExpr == Evaluate

SpecExpr == InitExpr /\ [][NextExpr]_vars

(***************************************************************************)
(* SpecPoints: calculatePoints on a learned average and an elapsed time    *)
(* that is so many hundredths of it.                                       *)
(***************************************************************************)
\* the learned averages, in milliseconds
MaxAvg == 12

\* elapsed times, in hundredths of the average
Hundredths == {50, 60, 80, 93, 100, 115, 150, 200, 300}

InitPoints ==
    /\ now = 1
    /\ sessionFile = NoFile
    /\ resumeData = NoFile
    /\ timing = [n \in NodeIds |-> 0]
    /\ dev = [d \in Devices |-> NewPlugin]
    /\ tasks = [d \in Devices |-> [s \in Slots |-> Idle]]
    /\ prevOwner = ""
    /\ misfiled = FALSE
    /\ invoked = 0
    /\ economy = DEFAULT_ECONOMY_DATA
    /\ shop = NoShop
    /\ zoom = NoStart
    /\ learn = NoLearn
    /\ call \in { [fn |-> "calculatePoints", pc |-> "called", avgMs |-> Rat(a, 1),
                   hundredths |-> h, elapsedMs |-> Rat(h * a, 100), points |-> 0] :
                     a \in 1..MaxAvg, h \in Hundredths }

\* finishTimerForActiveSession: calculatePoints(elapsedMs, existingTiming.avgMs)
CalculatePoints ==
    /\ call.fn = "calculatePoints"
    /\ call.pc = "called"
    /\ call' = [call EXCEPT !.pc = "returned",
                            !.points = calculatePoints(call.elapsedMs, call.avgMs)]
    /\ UNCHANGED << player, economy, shop, zoom, learn >>

NextPoints == CalculatePoints

SpecPoints == InitPoints /\ [][NextPoints]_vars

\* ---------------------------------------------------------------------------
\* "Play from here" on one device: sessions are started from the command and
\* from the card menu of any canvas, played and stopped.
\* ---------------------------------------------------------------------------

\* the cards "Play from here" is offered on
FromHereCards ==
    { c \in CanvasFiles \X NodeIds : FindNode(c[1], c[2]) # NoNode }

NextFromHere ==
    \/ PlayActiveCanvas("d1", 1)
    \/ \E c \in FromHereCards : PlayFromNode("d1", 1, c[1], c[2])
    \/ \E e \in 1..4 : Choose("d1", 1, e, FALSE)
    \/ Stop("d1", 1)
    \/ \E s \in Slots : OwnerStorageStep("d1", s)

SpecFromHere == InitMirror /\ [][NextFromHere]_vars

\* ---------------------------------------------------------------------------
\* Navigation only: one session is started on one device and from then on its
\* player window is clicked (Choose, Back, Return to parent), a click being
\* possible while the handler of an earlier click awaits storage.
\* ---------------------------------------------------------------------------

NextNavigate ==
    \/ invoked = 0 /\ PlayActiveCanvas("d1", MaxTasks)
    \/ \E e \in 1..4 : Choose("d1", MaxTasks, e, FALSE)
    \/ Back("d1", MaxTasks)
    \/ ReturnToParent("d1", MaxTasks, FALSE)
    \/ RestorePlayer("d1")
    \/ \E s \in Slots : OwnerStorageStep("d1", s)

SpecNavigate == InitMirror /\ [][NextNavigate]_vars

(***************************************************************************)
(* Properties.                                                             *)
(***************************************************************************)
NavOps == {"choose", "back", "return", "stop"}

\* the snapshot names an owner other than d
NamesOther(d) ==
    /\ sessionFile.present
    /\ sessionFile.ownerDeviceId # ""
    /\ sessionFile.ownerDeviceId # d

\* the snapshot was updated within the lease window
Fresh == sessionFile.present /\ now - sessionFile.updatedAtMs <= LEASE_TIMEOUT_MS

\* slot s of device d takes this step, which invokes a navigation action or
\* completes the read of its ownership check
NavUpToCheck(d, s) ==
    /\ tasks'[d][s] # tasks[d][s]
    /\ \/ tasks[d][s].pc = "idle" /\ tasks'[d][s].op \in NavOps
       \/ tasks[d][s].pc = "check_read"

PassedWriteCheck(d) ==
    {s \in Slots : /\ tasks[d][s].pc \in {"save_delete", "save_create"}
                   /\ ~tasks[d][s].force}

Creates(d, s) ==
    /\ tasks[d][s].pc = "save_create"
    /\ tasks'[d][s] # tasks[d][s]
    /\ ~sessionFile.present
    /\ sessionFile'.present

\* C4: a snapshot write that is not a TakeOver never changes the
\* ownerDeviceId of an existing snapshot; over any interleaving the owner of
\* a session's snapshot changes only by the write of a TakeOver.
C4_OwnerChangesOnlyByTakeOver ==
    [][\A d \in Devices, s \in Slots :
         (Creates(d, s) /\ prevOwner # "" /\ sessionFile'.ownerDeviceId # prevOwner)
         => tasks[d][s].force]_vars

\* the step in which a TakeOver on device d announces control
TakeOverCompletes(d, s) ==
    /\ tasks[d][s].pc # "idle"
    /\ tasks[d][s].op = "takeover"
    /\ tasks'[d][s] = Idle
    /\ dev'[d].notice = "control"

\* C5: when a TakeOver completes on device d, the snapshot names d as its
\* owner (so that d's next navigation actions pass the ownership check and
\* the previous owner's are refused).
C5_TakeOverNamesOwner ==
    [][\A d \in Devices, s \in Slots :
         TakeOverCompletes(d, s)
         => sessionFile'.present /\ sessionFile'.ownerDeviceId = d]_vars

\* the operation of the handler in slot s of device d that takes the step
StepOp(d, s) ==
    IF tasks[d][s].pc = "idle" THEN tasks'[d][s].op ELSE tasks[d][s].op

\* the handler in slot s of device d has popped its frame and not yet returned
Popped(T) == T.pc # "idle" /\ T.op = "return" /\ T.frame.node # NoNode

\* state2 holds state and beyond it only the defaults of renderScene: the
\* variables that the choices of node n ask for, as false
OnlyDefaultsAdded(state, state2, data, n) ==
    LET edges == CanvasData(data).edges
        asked == UNION {getMissingVariables(edges[i], state) :
                          i \in {e \in DOMAIN edges : edges[e].fromNode = n}}
    IN /\ DOMAIN state \subseteq DOMAIN state2
       /\ \A v \in DOMAIN state : state2[v] = state[v]
       /\ \A v \in DOMAIN state2 \ DOMAIN state : v \in asked /\ ~state2[v]

\* C6, as stated: when the ReturnToParent handler has returned, the variable
\* state equals the state captured at dive time (the popped frame's).
C6_StateEqualsDiveState ==
    [][\A d \in Devices, s \in Slots :
         (/\ Popped(tasks[d][s])
          /\ tasks'[d][s] = Idle
          /\ dev[d].activeSession.present
          /\ dev[d].activeSession.state = tasks[d][s].frame.state
          /\ dev'[d].activeSession.present)
         => dev'[d].activeSession.state = tasks[d][s].frame.state]_vars

\* C6, amended: the frame pushed by a Choose that enters a nested graph holds
\* the variable state of that moment and the nested graph starts from the
\* empty state; no navigation or prompt inside the nested graph changes a
\* frame on the stack; the matching ReturnToParent pops that frame and makes
\* its state the session's state, so nothing set or changed inside the nested
\* graph survives.  When the handler then renders the restored node, it adds
\* the variables that node's choices ask for and the state lacks, as false.
C6_ReturnRestoresDiveState ==
    [][\A d \in Devices :
         LET S == dev[d].activeSession
             S2 == dev'[d].activeSession
         IN /\ \A s \in Slots :
                 LET T == tasks[d][s]
                     T2 == tasks'[d][s]
                 IN (T2 # T /\ S.present /\ S2.present)
                    => /\ (T2.pc = "dive_read" /\ T.pc # "dive_read")
                          => /\ S2.stack = Append(S.stack,
                                      [file |-> S.file, data |-> S.data,
                                       node |-> Parsed(T2).toNode,
                                       state |-> updateState(Parsed(T2), S.state)])
                             /\ S2.state = EmptyState
                       /\ (StepOp(d, s) \in {"choose", "back"}
                           /\ ~(T2.pc = "dive_read" /\ T.pc # "dive_read"))
                          => S2.stack = S.stack
                       /\ (Popped(T2) /\ ~Popped(T))
                          => /\ S.stack # <<>>
                             /\ T2.frame = S.stack[Len(S.stack)]
                             /\ S2.stack = SubSeq(S.stack, 1, Len(S.stack) - 1)
                             /\ S2.state = T2.frame.state
                       /\ (Popped(T) /\ T2 # Idle) => S2 = S
                       /\ (Popped(T) /\ T2 = Idle)
                          => OnlyDefaultsAdded(S.state, S2.state, S2.data, S2.node)
            /\ (tasks' = tasks /\ S.present /\ S2.present) => S2.stack = S.stack]_vars

\* a ReturnToParent has just restored k = TRUE from its frame, and the
\* snapshot still shows the nested graph's state, with k = FALSE and j set
C6_Witness ==
    \E d \in Devices, s \in Slots :
        /\ Popped(tasks[d][s])
        /\ dev[d].activeSession.present
        /\ dev[d].activeSession.state = tasks[d][s].frame.state
        /\ DOMAIN dev[d].activeSession.state = {"k"}
        /\ dev[d].activeSession.state["k"]
        /\ sessionFile.present
        /\ sessionFile.updatedByDeviceId = d
        /\ sessionFile.stack # <<>>
        /\ DOMAIN sessionFile.state = {"k", "j"}
        /\ ~sessionFile.state["k"]

\* the navigation handlers of device d that have begun and not returned
NavInFlight(d) ==
    {s \in Slots : tasks[d][s].pc # "idle" /\ tasks[d][s].op \in NavOps}

\* C7: on one device a second navigation action (Choose, Back,
\* ReturnToParent, Stop) does not begin before the previous one, its
\* persistence included, has returned.
C7_OneNavigationAtATime ==
    \A d \in Devices : Cardinality(NavInFlight(d)) <= 1

\* C8: every timing sample that is committed is stored on the node whose
\* visit the finished timer measured.
C8_SampleOnMeasuredNode == ~misfiled

\* C9: the timer of a node visit leaves the running state exactly once, by
\* finish (sample committed) or by abort (sample discarded): while it runs
\* neither has occurred, and once it has stopped exactly one has, once.
C9_ExactlyOneOutcome ==
    \A d \in Devices :
        LET t == dev[d].sharedTimer
        IN t.visit # NoNode
           => IF t.startTimeMs /\ t.intervalId
              THEN t.finishes = 0 /\ t.aborts = 0
              ELSE t.finishes + t.aborts = 1

\* both outcomes have been seen: a visit's timer was finished on one device
\* and another visit's timer was aborted on the other
C9_Witness ==
    \E d, e \in Devices :
        /\ dev[d].sharedTimer.visit # NoNode
        /\ dev[d].sharedTimer.finishes = 1
        /\ dev[e].sharedTimer.visit # NoNode
        /\ dev[e].sharedTimer.aborts = 1

\* the session has the graph, node, variable state and stack of the entry
SameAsEntry(session, e) ==
    /\ session.file = e.currentFilePath
    /\ session.data = e.currentFilePath
    /\ session.node = e.currentNodeId
    /\ session.state = e.currentSessionState
    /\ Len(session.stack) = Len(e.stack)
    /\ \A i \in DOMAIN e.stack :
          /\ session.stack[i].file = e.stack[i].filePath
          /\ session.stack[i].node = e.stack[i].currentNodeId
          /\ session.stack[i].state = e.stack[i].state

\* C10: Stop saves the graph, node, variable state and stack (frames with
\* their states) that the session has, and the next "Play from last" starts
\* a session with exactly the saved graph, node, state and stack, and keeps
\* the entry.
C10_ResumeRestoresStopped ==
    [][\A d \in Devices, s \in Slots :
         LET S == dev[d].activeSession
             S2 == dev'[d].activeSession
             T == tasks[d][s]
             T2 == tasks'[d][s]
         IN T2 # T
            => /\ (T2.pc = "stop_save" /\ T.pc # "stop_save")
                  => S.present /\ T2.content = ResumeSession(S)
               /\ T.pc = "stop_save"
                  => resumeData' = T.content /\ ~S2.present
               /\ (T.pc = "resume_read" /\ resumeData.present)
                  => /\ resumeData' = resumeData
                     /\ S2.present
                     /\ S2.root = resumeData.rootFilePath
                     /\ SameAsEntry(S2, resumeData)]_vars

\* device d is starting or stopping a session: a handler of Play, "Play from
\* last" or Stop is in flight on it
StartingOrStopping(d) ==
    \E s \in Slots : /\ tasks[d][s].pc # "idle"
                     /\ tasks[d][s].op \in {"play", "resume", "stop"}

\* C11: once Stop has completed on the owning device the shared snapshot is
\* absent and stays absent until a new session is started: while the last
\* thing device d did was to complete a Stop (its notice is still the one of
\* Stop, it plays no session and no Play, "Play from last" or Stop is in
\* flight on it), no snapshot naming d as owner exists.
C11_AbsentAfterStop ==
    \A d \in Devices :
        ( /\ dev[d].notice = "stopped"
          /\ ~dev[d].activeSession.present
          /\ ~StartingOrStopping(d) )
        => ~(sessionFile.present /\ sessionFile.ownerDeviceId = d)

\* the local session has the graph, node and stack of snapshot f
Shows(session, f) ==
    /\ session.present
    /\ session.root = f.rootFilePath
    /\ session.file = f.currentFilePath
    /\ session.data = f.currentFilePath
    /\ session.node = f.currentNodeId
    /\ session.stack = restoreStackFromResume(f.stack)

\* the snapshot is newer than what non-owner device d applied last
Newer(d) ==
    /\ sessionFile.present
    /\ ~isOwnerOfPersistedSession(sessionFile, d)
    /\ sessionFile.updatedAtMs > dev[d].lastApplied

\* a reload of device d completes its restoreActiveSessionState on a snapshot
Reloads(d) ==
    /\ sessionFile.present
    /\ \E s \in Slots : tasks[d][s].pc = "w_restore" /\ tasks'[d][s].pc = "idle"

OwnerStopped(d) ==
    /\ dev[d].notice = "stopped"
    /\ Busy(d) = {}
    /\ ~dev[d].activeSession.present
    /\ ~sessionFile.present

\* C13: when the owner has stopped the session, so that the snapshot is
\* deleted and stays missing, a device that mirrors the session eventually
\* clears its local mirrored session (unless the owner starts a session
\* again first).
C13_MirrorEventuallyCleared ==
    (OwnerStopped("d1") /\ dev[Mirror].activeSession.present)
        ~> (~dev[Mirror].activeSession.present \/ ~OwnerStopped("d1"))

\* the reload in slot s of device d ends its grace period by clearing the
\* local session
GraceClears(d, s) ==
    /\ tasks[d][s].pc = "w_grace"
    /\ tasks'[d][s].pc = "idle"
    /\ dev[d].activeSession.present
    /\ ~dev'[d].activeSession.present

\* the snapshot is away only for a write that deleted it and is about to
\* re-create it, and the handler of that write was invoked after the reload
\* in slot s of device d began its grace period on a missing file: a
\* snapshot existed during the grace period
RecreatedInGrace(d, s) ==
    /\ ~sessionFile.present
    /\ prevOwner # ""
    /\ \E w \in Slots : tasks["d1"][w].pc = "save_create"
    /\ invoked > tasks[d][s].since

\* C14: a snapshot write performed as delete-then-recreate, the file being
\* re-created within the grace interval, never causes a watching device to
\* clear its local session: no reload clears the session at the end of a
\* grace period during which the snapshot existed and at whose end it is
\* away only for another write.
C14_RecreateNeverClears ==
    [][\A s \in Slots : GraceClears(Mirror, s) => ~RecreatedInGrace(Mirror, s)]_vars

\* snapshot f holds the position, variable state, stack and history of the
\* session
SnapshotOf(session, f) ==
    /\ f.present
    /\ f.rootFilePath = session.root
    /\ f.currentFilePath = session.file
    /\ f.currentNodeId = session.node
    /\ f.state = session.state
    /\ restoreStackFromResume(f.stack) = session.stack
    /\ f.historyNodeIds = session.history

\* device d plays a session that no other device owns
Owning(d) ==
    /\ dev[d].activeSession.present
    /\ sessionFile.present => isOwnerOfPersistedSession(sessionFile, d)

\* C15: the snapshot is written on every session mutation: whenever no
\* handler is in flight on the owning device, the persisted snapshot equals
\* the in-memory session (position, variable state, stack and history).
C15_SnapshotEqualsSession ==
    \A d \in Devices :
        (Owning(d) /\ Busy(d) = {}) => SnapshotOf(dev[d].activeSession, sessionFile)

\* the handler in slot s of device d completes the vault.read of its
\* ownership check
ChecksOwnership(d, s) ==
    /\ tasks[d][s].pc = "check_read"
    /\ tasks'[d][s] # tasks[d][s]

\* C16: the ownership check fails asymmetrically.  When the snapshot cannot
\* be read (no file is found, or the file found at the start of the check is
\* gone when it is read) the action is permitted: no read-only notice, and
\* the handler goes on as it does after a passed check.  When a snapshot naming another owner is read, the
\* action is denied: the handler ends with the read-only notice and the
\* session and the snapshot are as before.
C16_FailOpenFailClosed ==
    [][\A d \in Devices, s \in Slots :
         /\ (/\ tasks[d][s].pc = "idle"
             /\ tasks'[d][s].pc # "idle"
             /\ tasks'[d][s].op \in NavOps
             /\ ~sessionFile.present)
            => /\ tasks'[d][s].pc # "check_read"
               /\ dev'[d].notice # "readonly"
         /\ (ChecksOwnership(d, s) /\ ~sessionFile.present)
            => /\ dev'[d].notice # "readonly"
               /\ \E award \in BOOLEAN :
                     /\ tasks'[d][s] = AfterCheck(Mach(d, s, award)).T
                     /\ dev'[d] = AfterCheck(Mach(d, s, award)).P
         /\ (ChecksOwnership(d, s) /\ NamesOther(d))
            => /\ dev'[d].notice = "readonly"
               /\ tasks'[d][s] = Idle
               /\ dev'[d].activeSession = dev[d].activeSession
               /\ sessionFile' = sessionFile]_vars

\* a navigation of device d is past an ownership check and changes the
\* session while the snapshot, last written by the other device, is away
C16_Witness ==
    \E d \in Devices, s \in Slots :
        /\ tasks[d][s].pc \in {"fin_modify", "fin_plugin", "dive_read", "stop_save"}
        /\ ~sessionFile.present
        /\ prevOwner \in Devices \ {d}

\* the navigation actions that move the session and write a snapshot
NavWrites == {"choose", "back", "return"}

\* the handler in slot s of device d takes a step; the action it runs
Stepping(d, s) == tasks'[d][s] # tasks[d][s]

OpOf(d, s) == IF tasks[d][s].pc = "idle" THEN tasks'[d][s].op ELSE tasks[d][s].op

Outgoing(session) ==
    LET edges == CanvasData(session.data).edges
    IN {i \in DOMAIN edges : edges[i].fromNode = session.node}

\* the outgoing edges whose condition is true under the session's state
ValidEdges(session) ==
    {i \in Outgoing(session) :
        checkConditions(CanvasData(session.data).edges[i], session.state)}

\* a variable that a choice of the current node refers to is not defined
MissingVariable(session) ==
    \E i \in Outgoing(session) :
        getMissingVariables(CanvasData(session.data).edges[i], session.state) # {}

\* the player window of device d shows its session and no handler is changing it
Rendered(d) ==
    /\ dev[d].activeModal
    /\ dev[d].activeSession.present
    /\ Busy(d) = {}

\* C18: when no referenced variable is missing (the player does not show the
\* missing-variables prompt), the choices offered at the current node are
\* exactly its outgoing edges whose condition is true under the current
\* state; when there are none, the player reports "End of Path" if the stack
\* is empty and offers the return to the parent otherwise.
C18_ChoicesAreValidEdges ==
    \A d \in Devices :
        (Rendered(d) /\ ~dev[d].shown.prompt)
        => LET S == dev[d].activeSession
           IN /\ ~MissingVariable(S)
              /\ dev[d].shown.data = S.data
              /\ dev[d].shown.edges = ValidEdges(S)
              /\ dev[d].shown.end = (ValidEdges(S) = {} /\ S.stack = <<>>)
              /\ dev[d].shown.ret = (ValidEdges(S) = {} /\ S.stack # <<>>)

\* the only outgoing edge of the node has a false condition and is left out:
\* the player window, inside a nested graph, offers the return to the parent
C18_Witness ==
    \E d \in Devices :
        /\ Rendered(d)
        /\ ~dev[d].shown.prompt
        /\ Outgoing(dev[d].activeSession) # {}
        /\ dev[d].shown.edges = {}
        /\ dev[d].shown.ret

\* the Choose handler in slot s of device d leaves the current node: the step
\* that runs navigateToNode from "Update state" to the next awaited operation
ChooseAdvances(d, s) ==
    /\ Stepping(d, s)
    /\ OpOf(d, s) = "choose"
    /\ tasks[d][s].pc \in {"idle", "check_read", "fin_plugin", "fin_modify"}
    /\ tasks'[d][s].pc \in {"save_read", "save_create", "dive_read"}
    /\ dev[d].activeSession.present

Pops(d, s) == Popped(tasks'[d][s]) /\ ~Popped(tasks[d][s])

\* the pop of navigateReturnToParent and "Restore parent context": the top
\* frame leaves the stack, the session has the frame's graph, node and state
\* and an empty history
RestoresTopFrame(d, s) ==
    LET S == dev[d].activeSession
        S2 == dev'[d].activeSession
        top == S.stack[Len(S.stack)]
    IN /\ S.stack # <<>>
       /\ tasks'[d][s].frame = top
       /\ S2.present
       /\ S2.root = S.root
       /\ S2.stack = SubSeq(S.stack, 1, Len(S.stack) - 1)
       /\ S2.file = top.file
       /\ S2.data = top.data
       /\ S2.node = top.node
       /\ S2.state = top.state
       /\ S2.history = <<>>

\* the ReturnToParent handler in slot s of device d has passed the ownership
\* check and the timer, and finds no frame on the stack
FindsNoFrame(d, s) ==
    /\ tasks[d][s].pc \in {"check_read", "fin_plugin", "fin_modify"}
    /\ tasks[d][s].op = "return"
    /\ tasks'[d][s] # tasks[d][s]
    /\ tasks'[d][s].pc \notin {"fin_plugin", "fin_modify"}
    /\ dev'[d].notice # "readonly"
    /\ dev[d].activeSession.present
    /\ dev[d].activeSession.stack = <<>>

\* the handler goes on as stopActiveSession: the session is still in place
\* and the handler is at Stop's ownership check or, with no snapshot to
\* check, at the save of the resume entry of the session
GoesOnAsStop(d, s) ==
    /\ tasks'[d][s].pc # "idle"
    /\ tasks'[d][s].op = "stop"
    /\ dev'[d].activeSession = dev[d].activeSession
    /\ IF sessionFile.present
       THEN tasks'[d][s].pc = "check_read"
       ELSE /\ tasks'[d][s].pc = "stop_save"
            /\ tasks'[d][s].content = ResumeSession(dev[d].activeSession)

\* C20, as stated: ReturnToParent pops the top frame and restores graph,
\* node and state from it, with an empty history, and that is the session
\* the handler leaves when it returns; with an empty stack it goes on as
\* Stop.
C20_ReturnRestoresVerbatim ==
    [][\A d \in Devices, s \in Slots :
         /\ (Pops(d, s) /\ dev[d].activeSession.present) => RestoresTopFrame(d, s)
         /\ (Popped(tasks[d][s]) /\ tasks'[d][s] # tasks[d][s]
                                 /\ dev[d].activeSession.present)
            => dev'[d].activeSession = dev[d].activeSession
         /\ FindsNoFrame(d, s) => GoesOnAsStop(d, s)]_vars

\* C20, amended: ReturnToParent pops the top frame and restores graph, node
\* and state from it verbatim, with an empty history.  The rest of the
\* handler leaves graph, node, stack and history alone and changes the state
\* only when it renders the restored node in the open player, adding as
\* false the variables that node's choices test and the state lacks.  A
\* handler that finds the stack empty goes on as Stop: the session is
\* untouched and Stop's ownership check, or the save of the resume entry,
\* comes next.
C20_ReturnRestoresThenRenders ==
    [][\A d \in Devices, s \in Slots :
         LET S == dev[d].activeSession
             S2 == dev'[d].activeSession
         IN /\ (Pops(d, s) /\ S.present) => RestoresTopFrame(d, s)
            /\ (Popped(tasks[d][s]) /\ tasks'[d][s] # tasks[d][s] /\ S.present)
               => /\ S2 = [S EXCEPT !.state = S2.state]
                  /\ tasks'[d][s] # Idle => S2.state = S.state
                  /\ tasks'[d][s] = Idle
                     => /\ OnlyDefaultsAdded(S.state, S2.state, S.data, S.node)
                        /\ ~dev'[d].activeModal => S2.state = S.state
            /\ FindsNoFrame(d, s) => GoesOnAsStop(d, s)]_vars

\* a second ReturnToParent, clicked before the first had redrawn the player,
\* found the stack empty and now runs as Stop, while the first is still
\* writing the snapshot of the restored session
C20_Witness ==
    \E d \in Devices, s, r \in Slots :
        /\ Popped(tasks[d][s])
        /\ dev[d].activeSession.present
        /\ dev[d].activeSession.stack = <<>>
        /\ dev[d].activeSession.history = <<>>
        /\ dev[d].activeSession.node = tasks[d][s].frame.node
        /\ dev[d].activeSession.state = tasks[d][s].frame.state
        /\ tasks[d][r].pc \in {"check_read", "stop_save"}
        /\ tasks[d][r].op = "stop"

\* the variables that the choices of the session's node test and its state
\* does not define
MissingVars(session) ==
    UNION {getMissingVariables(CanvasData(session.data).edges[i], session.state) :
             i \in Outgoing(session)}

\* a handler of device d returns and redraws the open player
RedrawsAtReturn(d, s) ==
    /\ tasks[d][s].pc \in {"save_read", "save_delete", "save_create"}
    /\ tasks[d][s].kont \in {"ui", "open"}
    /\ tasks'[d][s] = Idle
    /\ dev[d].activeSession.present
    /\ dev'[d].activeSession.present
    /\ dev'[d].activeModal

\* the Continue button of the prompt is pressed on device d
Continues(d) ==
    /\ tasks' = tasks
    /\ dev[d].activeModal
    /\ dev[d].shown.prompt
    /\ dev'[d].activeModal
    /\ dev'[d].shown # dev[d].shown

\* C21: when a choice of the current node tests a variable the state does
\* not define, the player offers no choice (nor return, nor end) and shows
\* the prompt for exactly the missing variables, each stored as false; a
\* toggle of the prompt changes the value of one prompted variable and
\* nothing else; Continue, pressed while no handler is changing the session,
\* leaves the state as it is, every prompted variable defined, and draws the
\* node again, now with its choices.
C21_PromptThenContinue ==
    [][\A d \in Devices :
         LET S == dev[d].activeSession
             S2 == dev'[d].activeSession
             shown2 == dev'[d].shown
         IN /\ \A s \in Slots :
                 RedrawsAtReturn(d, s)
                 => /\ shown2.prompt = (MissingVars(S) # {})
                    /\ shown2.prompt => shown2.missing = MissingVars(S)
            /\ (shown2 # dev[d].shown /\ shown2.prompt)
               => /\ S2.present
                  /\ shown2.missing # {}
                  /\ shown2.edges = {} /\ ~shown2.ret /\ ~shown2.end
                  /\ \A v \in shown2.missing : v \in DOMAIN S2.state /\ ~S2.state[v]
            /\ (tasks' = tasks /\ S.present /\ S2.present /\ S2 # S
                               /\ dev[d].activeModal /\ shown2 = dev[d].shown)
               => /\ dev[d].shown.prompt
                  /\ \E v \in dev[d].shown.missing :
                        S2 = [S EXCEPT !.state[v] = ~@]
            /\ (Continues(d) /\ Busy(d) = {})
               => /\ S2 = S
                  /\ dev[d].shown.missing \subseteq DOMAIN S2.state
                  /\ ~shown2.prompt
                  /\ shown2.edges = ValidEdges(S2)]_vars

\* the prompt asked for k, the user switched it to true and pressed
\* Continue: the player offers the choice that tests k
C21_Witness ==
    \E d \in Devices :
        /\ Rendered(d)
        /\ ~dev[d].shown.prompt
        /\ dev[d].activeSession.node = "s1"
        /\ dev[d].activeSession.history = <<>>
        /\ dev[d].activeSession.state = [k |-> TRUE]
        /\ dev[d].shown.edges # {}

\* the Back handler in slot s of device d moves the session
BackMoves(d, s) ==
    /\ tasks[d][s].pc \in {"idle", "check_read"}
    /\ tasks'[d][s].pc \in {"save_read", "save_create"}
    /\ tasks'[d][s].op = "back"
    /\ dev[d].activeSession.present

HasNode(path, id) ==
    /\ path \in CanvasFiles
    /\ \E i \in DOMAIN CanvasData(path).nodes : CanvasData(path).nodes[i].id = id

\* every canvas and node the resume entry refers to exists
Restorable(e) ==
    /\ e.rootFilePath \in CanvasFiles
    /\ HasNode(e.currentFilePath, e.currentNodeId)
    /\ \A i \in DOMAIN e.stack : HasNode(e.stack[i].filePath, e.stack[i].currentNodeId)

\* "Play from last" in slot s of device d has read the entry and goes on
Resumes(d, s) == tasks[d][s].pc = "resume_read" /\ Stepping(d, s)

\* "Play from last" raises nothing and goes on to the snapshot of a session
\* whose canvases and nodes exist: with an entry that names a missing canvas
\* or node it reports "cannot resume", deletes the entry and starts at the
\* start node of the root canvas, as Play does; an entry whose canvases and
\* nodes all exist is resumed as saved, without that report
ResumeIsSafe(d, s) ==
    LET e == resumeData
        S2 == dev'[d].activeSession
    IN /\ tasks'[d][s].pc \in {"save_read", "save_create"}
       /\ tasks'[d][s].kont = "open"
       /\ S2.present
       /\ HasNode(S2.file, S2.node)
       /\ \A i \in DOMAIN S2.stack : HasNode(S2.stack[i].file, S2.stack[i].node)
       /\ (e.present /\ ~Restorable(e))
          => /\ dev'[d].notice = "cannot_resume"
             /\ resumeData' = NoFile
             /\ S2 = createActiveSession("R", "R", getStartNode("R"),
                                         EmptyState, <<>>)
       /\ (e.present /\ Restorable(e))
          => /\ dev'[d].notice # "cannot_resume"
             /\ resumeData' = e
             /\ SameAsEntry(S2, e)
       /\ ~e.present
          => /\ dev'[d].notice # "cannot_resume"
             /\ S2 = createActiveSession("R", "R", getStartNode("R"),
                                         EmptyState, <<>>)

\* the Choose handler in slot s of device d arrives at the dive into a canvas
\* that the vault does not hold
DivesIntoMissing(d, s) ==
    /\ tasks[d][s].pc \in {"check_read", "fin_plugin", "fin_modify"}
    /\ tasks[d][s].op = "choose"
    /\ tasks'[d][s] = Idle
    /\ dev[d].activeSession.present
    /\ dev'[d].notice # "readonly"
    /\ NodeOf(Parsed(tasks[d][s]).toNode).type = "file"
    /\ NodeOf(Parsed(tasks[d][s]).toNode).file \notin CanvasFiles

\* the handler reports the missing canvas and returns; the session stays in
\* the graph and at the node it was
MissingCanvasIsReported(d, s) ==
    LET S == dev[d].activeSession
        S2 == dev'[d].activeSession
    IN /\ dev'[d].notice = "nofile"
       /\ S2.present
       /\ S2.file = S.file /\ S2.data = S.data /\ S2.node = S.node
       /\ S2.stack = S.stack

\* a choice of the open player is clicked whose target node the canvas does
\* not hold, and no handler starts
ClicksMissingNode(d) ==
    /\ invoked' = invoked + 1
    /\ tasks' = tasks
    /\ dev[d].activeModal
    /\ \E e \in dev[d].shown.edges :
          ~HasNode(dev[d].shown.data, CanvasData(dev[d].shown.data).edges[e].toNode)

\* C24: a missing canvas or a missing node id met when resuming or when
\* navigating raises nothing and is reported: "Play from last" reports
\* "cannot resume" and starts the root canvas from the beginning; a choice
\* that leads into a missing canvas reports it and leaves the session where
\* it was; the click on a choice whose target node is missing is answered
\* by a report too.
C24_MissingIsReportedAndRecovered ==
    [][\A d \in Devices :
         /\ \A s \in Slots :
               /\ Resumes(d, s) => ResumeIsSafe(d, s)
               /\ DivesIntoMissing(d, s) => MissingCanvasIsReported(d, s)
         /\ ClicksMissingNode(d)
            => dev'[d].notice # "" /\ dev'[d].notice # dev[d].notice]_vars

\* C25: an earn transaction is added only by the finish of a running timer
\* whose node already has a TimingRecord; the finish of a visit to a node
\* without a record (the calibration run) adds none.
C25_NoPointsOnCalibration ==
    [][\A d \in Devices :
         LET t == dev[d].sharedTimer
             t2 == dev'[d].sharedTimer
         IN /\ dev'[d].earned # dev[d].earned
               => /\ dev'[d].earned = dev[d].earned + 1
                  /\ isRunning(t)
                  /\ t2 = TimerFinish(t)
                  /\ timing[t.visit] > 0
            /\ (isRunning(t) /\ t2 = TimerFinish(t) /\ timing[t.visit] = 0)
               => dev'[d].earned = dev[d].earned]_vars

\* points were awarded for a visit to a node that had a TimingRecord; the
\* handler is saving the ledger
C25_Witness ==
    \E d \in Devices, s \in Slots :
        /\ tasks[d][s].pc = "fin_plugin"
        /\ dev[d].earned = 1
        /\ tasks[d][s].measured # NoNode
        /\ timing[tasks[d][s].measured] > 0
        /\ dev[d].sharedTimer.finishes = 1

\* the Choose handler T has entered a nested graph and not yet returned
Dived(T) ==
    /\ T.pc \in {"dive_read", "save_read", "save_delete", "save_create"}
    /\ T.op = "choose"
    /\ IsCanvasNode(Parsed(T).toNode)

\* C26: the dive empties the variable state, whatever the parent scope
\* held: no variable is defined when the nested graph has been entered, and
\* the handler of the dive leaves the state alone until it returns.  Only
\* when it then draws the start node of the nested graph in the open player
\* does the state gain variables: those the node's choices test, each as
\* false, never with a value of the parent scope.
C26_NestedStartsEmpty ==
    [][\A d \in Devices, s \in Slots :
         LET T == tasks[d][s]
             T2 == tasks'[d][s]
             S == dev[d].activeSession
             S2 == dev'[d].activeSession
         IN (T2 # T /\ S.present /\ S2.present)
            => /\ (Dived(T2) /\ ~Dived(T)) => S2.state = EmptyState
               /\ (Dived(T) /\ T2 # Idle) => S2.state = S.state
               /\ (Dived(T) /\ T2 = Idle)
                  => /\ OnlyDefaultsAdded(S.state, S2.state, S2.data, S2.node)
                     /\ ~dev'[d].activeModal => S2.state = S.state]_vars

\* the dive from a, where k was set to true, has arrived at the start node
\* of the nested graph: the frame holds k = TRUE and the state is empty
C26_Witness ==
    \E d \in Devices, s \in Slots :
        LET S == dev[d].activeSession
        IN /\ Dived(tasks[d][s])
           /\ tasks[d][s].pc = "save_create"
           /\ S.present
           /\ S.node = "s1"
           /\ Len(S.stack) = 1
           /\ S.stack[1].state = [k |-> TRUE]
           /\ S.state = EmptyState

\* C27: Back changes only the position.  The step that moves the session
\* makes the last entry of the history the current node and removes it from
\* the history; graph, stack and variable state stay as they are, and the
\* rest of the handler, its redraw included, changes nothing of the session.
C27_BackChangesOnlyPosition ==
    [][\A d \in Devices, s \in Slots :
         LET S == dev[d].activeSession
             S2 == dev'[d].activeSession
         IN /\ BackMoves(d, s)
               => /\ S.history # <<>>
                  /\ S2 = [S EXCEPT !.node = S.history[Len(S.history)],
                                    !.history = SubSeq(S.history, 1,
                                                       Len(S.history) - 1)]
            /\ (/\ tasks[d][s].pc \in {"save_read", "save_delete", "save_create"}
                /\ tasks[d][s].op = "back"
                /\ Stepping(d, s)
                /\ S.present)
               => S2 = S]_vars

\* Back has undone the choice s1 -> s1, which had set k to false and j to
\* true: the session is at s1 with an empty history and still holds both
C27_Witness ==
    \E d \in Devices, s \in Slots :
        /\ tasks[d][s].pc \in {"save_read", "save_delete", "save_create"}
        /\ tasks[d][s].op = "back"
        /\ dev[d].activeSession.present
        /\ dev[d].activeSession.node = "s1"
        /\ dev[d].activeSession.history = <<>>
        /\ dev[d].activeSession.state = [k |-> FALSE, j |-> TRUE]

(***************************************************************************)
(* C28  With a marker configured, the start node is the target of the      *)
(* first outgoing edge of the first text node whose content contains the   *)
(* marker, whatever the case of its letters, and it is never the marker    *)
(* node itself; with no marker configured it is the first text node        *)
(* without incoming edges, else the first node of the graph, else none.    *)
(* The marker is the setting in lower case without the blanks around it;   *)
(* where there is no marker node, no edge out of it or no node at the end  *)
(* of that edge, there is no start node.                                   *)
(***************************************************************************)
HoldsMarker(n, marker) ==
    n.type = "text" /\ n.hasText /\ includes(toLowerCase(n.text), marker)

\* the places of s that satisfy the set of places ok and have none before them
Firsts(ok) == {i \in ok : \A j \in ok : i <= j}

StartByMarker(data, marker, node) ==
    LET ms == Firsts({i \in 1..Len(data.nodes) : HoldsMarker(data.nodes[i], marker)})
    IN IF ms = {} THEN node = NoNode
       ELSE LET m == data.nodes[CHOOSE i \in ms : TRUE].id
                es == Firsts({j \in 1..Len(data.edges) : data.edges[j].fromNode = m})
            IN IF es = {} THEN node = NoNode
               ELSE LET target == data.edges[CHOOSE j \in es : TRUE].toNode
                    IN /\ node # m
                       /\ IF \E i \in 1..Len(data.nodes) : data.nodes[i].id = target
                          THEN node = target
                          ELSE node = NoNode

StartByOrder(data, node) ==
    LET roots == Firsts({i \in 1..Len(data.nodes) :
                            /\ data.nodes[i].type = "text"
                            /\ \A j \in 1..Len(data.edges) :
                                   data.edges[j].toNode # data.nodes[i].id})
    IN IF roots # {} THEN node = data.nodes[CHOOSE i \in roots : TRUE].id
       ELSE IF Len(data.nodes) > 0 THEN node = data.nodes[1].id
       ELSE node = NoNode

C28_StartNodeIsBehindMarker ==
    zoom.pc = "done" =>
        IF trim(toLowerCase(zoom.startText)) # << >>
        THEN StartByMarker(zoom.data, trim(toLowerCase(zoom.startText)), zoom.node)
        ELSE StartByOrder(zoom.data, zoom.node)

(***************************************************************************)
(* C29  After any sequence of earn and purchase operations there is at     *)
(* most one purchase record per item: an item has a purchase record        *)
(* exactly when the ledger holds a spend on it, that spend is the only one *)
(* on the item and the one the record names, and a click on Buy for an     *)
(* item that is owned already is rejected (an ordinary null, nothing       *)
(* thrown) and leaves the economy as it was.                               *)
(***************************************************************************)
\* the places of the ledger's spends on an item
SpendsOn(e, id) ==
    {i \in 1..Len(e.transactionsById) :
        /\ e.transactionsById[i].type = "spend"
        /\ e.transactionsById[i].itemId = id}

\* this step is a click on a Buy button
ClicksBuy == shop'.last # shop.last

C29_OnePurchasePerItem ==
    [][/\ \A id \in ShopItemIds :
            /\ Cardinality(SpendsOn(economy', id)) <= 1
            /\ id \in DOMAIN economy'.purchases <=> SpendsOn(economy', id) # {}
            /\ id \in DOMAIN economy'.purchases =>
                   /\ economy'.purchases[id].itemId = id
                   /\ economy'.purchases[id].txId \in SpendsOn(economy', id)
       /\ ClicksBuy /\ shop'.last.item \in DOMAIN economy.purchases =>
            /\ economy' = economy
            /\ shop'.last.tx = NoTransaction
            /\ ~shop'.last.threw
            /\ shop'.saving = shop.saving]_vars

\* the last click found the item bought and paid for already, though the
\* balance would have bought it once more
C29_Witness ==
    /\ shop.last.item \in DOMAIN economy.purchases
    /\ shop.last.tx = NoTransaction
    /\ shop.last.balance >= getShopItem(shop.last.item).cost
    /\ shop.notice = "Already owned"

(***************************************************************************)
(* C30  A spend whose cost exceeds the current balance returns failure as  *)
(* an ordinary negative result, not an exception, and leaves the ledger    *)
(* and the balance unchanged: so for a click on Buy that finds the balance *)
(* below the price, and so for recordSpend called on any ledger the shop   *)
(* reaches with any item and any cost above the balance.                   *)
(***************************************************************************)
C30_OverdraftIsRefused ==
    [][/\ ClicksBuy /\ shop'.last.balance < getShopItem(shop'.last.item).cost =>
            /\ shop'.last.balance = calculateBalance(economy)
            /\ shop'.last.tx = NoTransaction
            /\ ~shop'.last.threw
            /\ economy'.transactionsById = economy.transactionsById
            /\ economy'.purchases = economy.purchases
            /\ calculateBalance(economy') = calculateBalance(economy)
       /\ \A id \in ShopItemIds :
            \A cost \in (calculateBalance(economy) + 1)..(MaxPoints * MaxTransactions + 1) :
                LET r == recordSpend(economy, id, cost)
                IN /\ r.tx = NoTransaction
                   /\ ~r.threw
                   /\ r.economy = economy]_vars

\* the last click found less on the ledger than the item costs: the modal
\* had been drawn before another purchase was paid
C30_Witness ==
    /\ shop.last.item # ""
    /\ shop.last.balance < getShopItem(shop.last.item).cost
    /\ shop.last.tx = NoTransaction
    /\ shop.last.balance = calculateBalance(economy)

(***************************************************************************)
(* C31  Each finish appends the clamped sample to the node's historyMs and *)
(* keeps at most the 5 most recent entries: after n finished visits of a   *)
(* node the historyMs of the timing that the finish computed holds the     *)
(* clamped samples of the last min(n, 5) visits, the oldest first.  The    *)
(* sample of the first visit is its elapsed time; the sample of a later    *)
(* visit is its elapsed time clamped by the average learned before it.     *)
(***************************************************************************)
ClampedSample(visit) ==
    IF visit.first THEN visit.elapsedMs ELSE Clamp(visit.avgMs, visit.elapsedMs)

C31_HistoryHoldsLastSamples ==
    LET n == Len(learn.visits)
        k == IF n < MAX_HISTORY THEN n ELSE MAX_HISTORY
    IN n > 0 =>
        /\ Len(learn.returned.historyMs) = k
        /\ \A i \in 1..k :
              learn.returned.historyMs[i] = ClampedSample(learn.visits[n - k + i])

(***************************************************************************)
(* C32  parseLabel is idempotent on its own output's displayText: for      *)
(* every raw label, parsing the text returned by parseLabel yields no      *)
(* setOps and no expression.                                               *)
(***************************************************************************)
C32_ParseLabelIdempotent ==
    call.fn = "parseLabel" /\ call.pc = "reparsed" =>
        /\ call.reparsed.sets = << >>
        /\ call.reparsed.expression = NoExpression

(***************************************************************************)
(* C33  evaluate(expression, state) returns the value of the expression    *)
(* under the grammar Expr := Term {'|' Term}, Term := Factor {'&' Factor}, *)
(* Factor := '!' Factor | '(' Expr ')' | Ident['='bool]: '|' binds         *)
(* loosest, then '&', then '!', parentheses group, a bare identifier means *)
(* that the variable is true, var=false that it is false, and a variable   *)
(* the state does not define reads as false.                               *)
(***************************************************************************)
RECURSIVE ValueOf(_, _)
ValueOf(e, st) ==
    IF e[1] = "id" THEN e[2] \in DOMAIN st /\ st[e[2]]
    ELSE IF e[1] = "idfalse" THEN ~(e[2] \in DOMAIN st /\ st[e[2]])
    ELSE IF e[1] = "not" THEN ~ValueOf(e[2], st)
    ELSE IF e[1] = "and" THEN ValueOf(e[2], st) /\ ValueOf(e[3], st)
    ELSE ValueOf(e[2], st) \/ ValueOf(e[3], st)

C33_EvaluateFollowsGrammar ==
    call.fn = "evaluate" /\ call.pc = "returned" =>
        call.result = ValueOf(call.of, call.state)

\* "a | b&a=false" with a true and b undefined: true, where '|' binding
\* tighter than '&' would give false
C33_Witness ==
    /\ call.fn = "evaluate"
    /\ call.pc = "returned"
    /\ call.of = << "or", << "id", << "a" >> >>,
                    << "and", << "id", << "b" >> >>, << "idfalse", << "a" >> >> >> >>
    /\ call.state = [v \in { << "a" >> } |-> TRUE]
    /\ call.result

(***************************************************************************)
(* C34  For every avg > 0, calculatePoints(avg, avg) is strictly less than *)
(* calculatePoints(0.93 * avg, avg): the points of a visit that took 93    *)
(* hundredths of the average are more than the points of a visit that took *)
(* the average.                                                            *)
(***************************************************************************)
C34_PeakAboveAverage ==
    call.fn = "calculatePoints" /\ call.pc = "returned" /\ call.hundredths = 93 =>
        calculatePoints(call.avgMs, call.avgMs) < call.points

\* C35: whenever an active session's nesting stack is empty, the canvas it is
\* on is its root canvas, and a resume entry that Stop filed from such a
\* session is filed under the canvas that was being played.
C35_EmptyStackIsRoot ==
    /\ \A d \in Devices :
          LET session == dev[d].activeSession
          IN session.present /\ session.stack = << >> =>
                 session.file = session.root
    /\ resumeData.present /\ resumeData.stack = << >> =>
           resumeData.currentFilePath = resumeData.rootFilePath

\* C36: a Choose that leads to a nested-canvas node whose canvas cannot be
\* entered leaves the session as it was: when its handler returns, the
\* graph, node, variable state, history and stack are those from before,
\* and the timer of the node is still running.
C36_FailedDiveLeavesSession ==
    [][\A d \in Devices, s \in Slots :
         DivesIntoMissing(d, s)
         => /\ dev'[d].activeSession = dev[d].activeSession
            /\ isRunning(dev'[d].sharedTimer)]_vars

\* C37: whenever no handler of a device is in progress, the current node of
\* its session is a node of the loaded graph, and the loaded graph is the
\* one of the current canvas file.
C37_NodeIsInLoadedGraph ==
    \A d \in Devices :
        LET session == dev[d].activeSession
        IN (session.present /\ \A s \in Slots : tasks[d][s].pc = "idle")
           => /\ FindNode(session.data, session.node) # NoNode
              /\ session.data = session.file

\* device d holds a session whose snapshot names another device as owner
MirrorsForeignSession(d) ==
    /\ dev[d].activeSession.present
    /\ sessionFile.present
    /\ ~isOwnerOfPersistedSession(sessionFile, d)

\* the step ends the watcher's reload of the snapshot on device d
AppliesSnapshot(d) ==
    \E s \in Slots : tasks[d][s].pc = "w_restore" /\ tasks'[d][s].pc = "idle"

\* the step belongs to a handler of device d that takes the session over or
\* starts a session of its own
TakesOverOrStarts(d) ==
    \E s \in Slots :
       LET T == IF tasks'[d][s].pc # "idle" THEN tasks'[d][s] ELSE tasks[d][s]
       IN /\ tasks'[d][s] # tasks[d][s]
          /\ T.pc # "idle"
          /\ T.op \in {"takeover", "play", "resume"}

\* C38: on a device that is not the owner of the snapshot, the session
\* (graph, node, variable state, stack, history, or its being there at all)
\* changes only when the watcher applies a snapshot or the device takes the
\* session over (or starts a session of its own); no click in the player
\* window changes or clears it.
C38_MirrorIsReadOnly ==
    [][\A d \in Devices :
         (MirrorsForeignSession(d) /\ dev'[d].activeSession # dev[d].activeSession)
         => AppliesSnapshot(d) \/ TakesOverOrStarts(d)]_vars

\* C39: every entry of the history is a node of the current graph, so Back
\* never moves the current node to a node of another graph.
C39_HistoryStaysInGraph ==
    /\ [](\A d \in Devices :
            LET session == dev[d].activeSession
            IN (session.present /\ \A s \in Slots : tasks[d][s].pc = "idle")
               => \A i \in DOMAIN session.history :
                      FindNode(session.file, session.history[i]) # NoNode)
    /\ [][\A d \in Devices :
            (\E s \in Slots : BackMoves(d, s))
            => FindNode(dev'[d].activeSession.file,
                        dev'[d].activeSession.node) # NoNode]_vars

====
